---- MODULE Spec2Model ----
(***************************************************************************)
(* Payflow SDK: the paid-tool invocation pipeline of PayflowMcpServer      *)
(* (packages/payflow-sdk/src/index.ts).                                    *)
(*                                                                         *)
(* A paid tool is registered with paidTool(); every call of the tool runs  *)
(* the callback built by createPaidCallback(): validate the declared       *)
(* params, decode the payment, generate the requirements, verify, run the  *)
(* wrapped handler, settle, append the payment reference.  The callback is *)
(* an async function: it runs atomically between two awaits, and several   *)
(* invocations interleave at their awaits (verify, handler, settle).       *)
(*                                                                         *)
(* JavaScript values are modelled as follows.                              *)
(*   - undefined is the string "undefined" (what a template string prints) *)
(*   - a string built by a template is the sequence of its parts           *)
(*   - a thrown value is [name, message]: name "Error", "TypeError",       *)
(*     "ZodError", ... for error objects, "string" for a thrown string     *)
(*   - an object with string keys is a function on its keys                *)
(*   - an object identity (a handler's result) is an index of heap         *)
(***************************************************************************)
EXTENDS Integers, Sequences, FiniteSets, TLC

(***************************************************************************)
(* Bounds of the model.                                                    *)
(***************************************************************************)
MaxInvocations == 2

Invocations == 1..MaxInvocations

undefined == "undefined"

EmptyObject == [k \in {} |-> undefined]

(***************************************************************************)
(* Thrown values and text.                                                 *)
(***************************************************************************)
\* new Error(message): an undefined message gives the empty message
Error(message) ==
    [name |-> "Error", message |-> IF message = <<undefined>> THEN <<>> ELSE message]

ThrownString(s) == [name |-> "string", message |-> <<s>>]

\* a plain string used as the text of a content segment
Text(parts) == [name |-> "string", message |-> parts]

NoError == [name |-> "none", message |-> <<>>]

(***************************************************************************)
(* Payment tokens.  exact.evm.decodePayment decodes the caller's string    *)
(* into a payload and throws on a string that is no encoded payload.       *)
(***************************************************************************)
\* the signed authorization a payload carries: an atomic amount of an asset
\* for a recipient
Authorization(value, to, asset) == [value |-> value, to |-> to, asset |-> asset]

Payload(version, scheme, network, auth) ==
    [x402Version |-> version, scheme |-> scheme, network |-> network, payload |-> auth]

EncodePayment(p) == [wellFormed |-> TRUE, body |-> p]

MalformedToken == [wellFormed |-> FALSE, body |-> Payload(0, "", "", Authorization("", "", ""))]

Authorization005 == Authorization("50000", "0x1234", "usdc@base")

TokenBase == EncodePayment(Payload(1, "exact", "base", Authorization005))
TokenSepolia ==
    EncodePayment(Payload(1, "exact", "base-sepolia",
                          Authorization("50000", "0x1234", "usdc@base-sepolia")))
TokenUpto == EncodePayment(Payload(1, "upto", "base", Authorization005))

Tokens == {MalformedToken, TokenBase, TokenSepolia, TokenUpto}

\* a decoder that falls back to a default payload on a string it cannot decode
decodePayment_Lenient(payment) ==
    IF payment.wellFormed
    THEN [ok |-> TRUE, value |-> payment.body, error |-> NoError]
    ELSE [ok |-> TRUE, value |-> Payload(1, "exact", "base", Authorization("", "", "")), error |-> NoError]

decodePayment(payment) ==
    IF payment.wellFormed
    THEN [ok |-> TRUE, value |-> payment.body, error |-> NoError]
    ELSE [ok |-> FALSE, value |-> payment.body,
          error |-> [name |-> "SyntaxError", message |-> <<"Unexpected token">>]]

(***************************************************************************)
(* Requirements Generator.                                                 *)
(*                                                                         *)
(* A price is a number of ten-thousandths of a dollar (0.05 is 500).       *)
(* processPriceToAtomicAmount (x402/shared) rejects a price below 0.0001   *)
(* and otherwise returns the amount in the atomic unit of the network's    *)
(* default asset (USDC, 6 decimals) as a string, with the asset.           *)
(***************************************************************************)
KnownNetworks == {"base", "base-sepolia"}

processPriceToAtomicAmount(price, network) ==
    IF price < 1
    THEN [hasError |-> TRUE, error |-> <<"Invalid price (price: ", ToString(price), ")">>,
          maxAmountRequired |-> "", asset |-> [address |-> "", name |-> "", version |-> ""]]
    ELSE [hasError |-> FALSE, error |-> <<>>,
          maxAmountRequired |-> ToString(price * 100),
          asset |-> [address |-> "usdc@" \o network, name |-> "USD Coin", version |-> "2"]]

NoRequirements ==
    [scheme |-> "", network |-> "", maxAmountRequired |-> "", resource |-> "",
     description |-> "", mimeType |-> "", payTo |-> "", maxTimeoutSeconds |-> 0,
     asset |-> "", extra |-> [name |-> "", version |-> ""]]

\* a match that also compares the amount, the recipient and the asset
findMatchingPaymentRequirements_Strict(paymentRequirements, payload) ==
    LET matching == {k \in DOMAIN paymentRequirements :
                        /\ paymentRequirements[k].scheme = payload.scheme
                        /\ paymentRequirements[k].network = payload.network
                        /\ paymentRequirements[k].maxAmountRequired = payload.payload.value
                        /\ paymentRequirements[k].payTo = payload.payload.to
                        /\ paymentRequirements[k].asset = payload.payload.asset}
    IN  IF matching = {}
        THEN [found |-> FALSE, value |-> NoRequirements]
        ELSE [found |-> TRUE,
              value |-> paymentRequirements[CHOOSE k \in matching : \A m \in matching : k <= m]]

\* x402/shared: the first requirement with the payload's scheme and network
findMatchingPaymentRequirements(paymentRequirements, payload) ==
    LET matching == {k \in DOMAIN paymentRequirements :
                        /\ paymentRequirements[k].scheme = payload.scheme
                        /\ paymentRequirements[k].network = payload.network}
    IN  IF matching = {}
        THEN [found |-> FALSE, value |-> NoRequirements]
        ELSE [found |-> TRUE,
              value |-> paymentRequirements[CHOOSE k \in matching : \A m \in matching : k <= m]]

\* requirement generation that skips the match against the payload
generateRequirements_NoMatching(payload, tool, price, recipient, network) ==
    LET atomicAmountForAsset == processPriceToAtomicAmount(price, network)
    IN  IF atomicAmountForAsset.hasError
        THEN [ok |-> FALSE, value |-> NoRequirements,
              error |-> Error(atomicAmountForAsset.error)]
        ELSE [ok |-> TRUE, error |-> NoError,
              value |-> [scheme |-> "exact",
                         network |-> network,
                         maxAmountRequired |-> atomicAmountForAsset.maxAmountRequired,
                         resource |-> tool,
                         description |-> "",
                         mimeType |-> "text/plain",
                         payTo |-> recipient,
                         maxTimeoutSeconds |-> 60,
                         asset |-> atomicAmountForAsset.asset.address,
                         extra |-> [name |-> atomicAmountForAsset.asset.name,
                                    version |-> atomicAmountForAsset.asset.version]]]

\* requirement generation that takes the price itself for the atomic amount
generateRequirements_RawPrice(payload, tool, price, recipient, network) ==
    LET generated == generateRequirements_NoMatching(payload, tool, price, recipient, network)
    IN  IF generated.ok /\ payload.scheme = "exact" /\ payload.network = network
        THEN [generated EXCEPT !.value.maxAmountRequired = ToString(price)]
        ELSE [ok |-> FALSE, value |-> NoRequirements,
              error |-> Error(<<"No matching payment requirements found">>)]

generateRequirements(payload, tool, price, recipient, network) ==
    IF network \notin KnownNetworks
    THEN [ok |-> FALSE, value |-> NoRequirements,
          error |-> [name |-> "TypeError", message |-> <<"Cannot read properties of undefined">>]]
    ELSE
    LET atomicAmountForAsset == processPriceToAtomicAmount(price, network)
        paymentRequirements ==
            << [scheme |-> "exact",
                network |-> network,
                maxAmountRequired |-> atomicAmountForAsset.maxAmountRequired,
                resource |-> tool,
                description |-> "",
                mimeType |-> "text/plain",
                payTo |-> recipient,
                maxTimeoutSeconds |-> 60,
                asset |-> atomicAmountForAsset.asset.address,
                extra |-> [name |-> atomicAmountForAsset.asset.name,
                           version |-> atomicAmountForAsset.asset.version]] >>
        selectedPaymentRequirements ==
            findMatchingPaymentRequirements(paymentRequirements, payload)
    IN  IF atomicAmountForAsset.hasError
        THEN [ok |-> FALSE, value |-> NoRequirements,
              error |-> Error(atomicAmountForAsset.error)]
        ELSE IF ~selectedPaymentRequirements.found
        THEN [ok |-> FALSE, value |-> NoRequirements,
              error |-> Error(<<"No matching payment requirements found">>)]
        ELSE [ok |-> TRUE, value |-> selectedPaymentRequirements.value, error |-> NoError]

(***************************************************************************)
(* Verifier and Settler adapters.                                          *)
(***************************************************************************)
\* an error that only passes on the facilitator's reason
enrichVerificationError_ReasonOnly(requirements, reason) ==
    Error(<<"Payment verification failed: ",
            IF reason = undefined \/ reason = "" THEN "unknown reason" ELSE reason>>)

enrichVerificationError(requirements, reason) ==
    CASE reason = "insufficient_funds" ->
            Error(<<reason, ": Insufficient funds for payment. Required: ",
                    requirements.maxAmountRequired>>)
      [] reason = "invalid_exact_evm_payload_authorization_valid_after" ->
            Error(<<reason, ": Invalid validAfter value in the payment">>)
      [] reason = "invalid_exact_evm_payload_authorization_valid_before" ->
            Error(<<reason, ": Invalid validBefore value in the payment">>)
      [] reason = "invalid_exact_evm_payload_authorization_value" ->
            Error(<<reason, ": The value of the payment is incorrect, it should be ",
                    requirements.maxAmountRequired>>)
      [] reason = "invalid_exact_evm_payload_signature" ->
            Error(<<reason, ": Invalid signature in the payment">>)
      [] reason = "invalid_exact_evm_payload_recipient_mismatch" ->
            Error(<<reason, ": Recipient mismatch in the payment. Pay to: ",
                    requirements.payTo>>)
      [] reason = "invalid_network" ->
            Error(<<reason, ": Invalid network in the payment. Network: ",
                    requirements.network>>)
      [] OTHER ->
            Error(<<"Payment verification failed: ",
                    IF reason = undefined \/ reason = "" THEN "unknown reason" ELSE reason>>)

\* a verifier that ignores isValid
verifyPayment_AcceptsInvalid(verifyResponse, requirements) ==
    [threw |-> FALSE, error |-> NoError]

\* what verifyPayment does with the facilitator's response: throws or returns
verifyPayment(verifyResponse, requirements) ==
    IF ~verifyResponse.isValid
    THEN [threw |-> TRUE,
          error |-> enrichVerificationError(requirements, verifyResponse.invalidReason)]
    ELSE [threw |-> FALSE, error |-> NoError]

\* a settler that throws an error of its own instead of the reason
settlePayment_GenericError(settleResponse) ==
    IF ~settleResponse.success
    THEN [threw |-> TRUE, error |-> Error(<<"Settlement failed">>)]
    ELSE [threw |-> FALSE, error |-> NoError]

\* what settlePayment does with the facilitator's response: throws or returns it
settlePayment(settleResponse) ==
    IF ~settleResponse.success
    THEN [threw |-> TRUE, error |-> Error(<<settleResponse.errorReason>>)]
    ELSE [threw |-> FALSE, error |-> NoError]

(***************************************************************************)
(* Tool Registration Facade.                                               *)
(*                                                                         *)
(* A positional argument of paidTool is [kind, str, keys, shape, price,    *)
(* recipient, len]: kind is its typeof, keys its own keys, shape maps each *)
(* key whose value is a Zod type to that type, len is a function's         *)
(* declared parameter count.                                               *)
(***************************************************************************)
EmptyShape == [k \in {} |-> "string"]

ArgValue(kind, str, keys, shape, price, recipient, len) ==
    [kind |-> kind, str |-> str, keys |-> keys, shape |-> shape,
     price |-> price, recipient |-> recipient, network |-> undefined, len |-> len]

StringArg(s) == ArgValue("string", s, {}, EmptyShape, 0, "", 0)
OptionsArg(price, recipient) ==
    ArgValue("object", "", {"price", "recipient"}, EmptyShape, price, recipient, 0)
\* PaymentOptions with the optional network field
OptionsWithNetworkArg(price, recipient, network) ==
    [OptionsArg(price, recipient) EXCEPT
        !.keys = {"price", "recipient", "network"}, !.network = network]
ShapeArg(shape) == ArgValue("object", "", DOMAIN shape, shape, 0, "", 0)
PlainObjectArg(keys) == ArgValue("object", "", keys, EmptyShape, 0, "", 0)
FunctionArg(len) == ArgValue("function", "", {}, EmptyShape, 0, "", len)
UndefinedArg == ArgValue("undefined", "", {}, EmptyShape, 0, "", 0)

isObject(v) == v.kind = "object"

\* some own value is a Zod type (has parse and safeParse functions)
isZodRawShape(obj) ==
    IF ~isObject(obj) THEN FALSE
    ELSE LET isEmptyObject == obj.keys = {}
         IN  isEmptyObject \/ (DOMAIN obj.shape # {})

shift(rest) == SubSeq(rest, 2, Len(rest))

\* the schema the callback validates with: z.object(shape)
\* parse accepts an object that has every declared key with a value of the
\* declared type; keys that are not declared are ignored
schemaParse(shape, obj) ==
    IF \A k \in DOMAIN shape : k \in DOMAIN obj /\ obj[k].t = shape[k]
    THEN [ok |-> TRUE, error |-> NoError]
    ELSE [ok |-> FALSE, error |-> [name |-> "ZodError", message |-> <<"invalid_type">>]]

\* a schema that leaves the payment field out
finalSchema_WithoutPayment(inputSchema) == inputSchema

\* const finalSchema = { ...(inputSchema || {}), payment: z.string() }
finalSchema(inputSchema) ==
    [k \in DOMAIN inputSchema \cup {"payment"} |->
        IF k = "payment" THEN "string" ELSE inputSchema[k]]

\* the argument parsing of paidTool, up to the registration with the server
paidTool(name, args) ==
    LET hasDescription == Len(args) >= 1 /\ args[1].kind = "string"
        description == IF hasDescription THEN args[1].str ELSE undefined
        rest1 == IF hasDescription THEN shift(args) ELSE args
        hasOptions == /\ Len(rest1) >= 1
                      /\ isObject(rest1[1])
                      /\ "price" \in rest1[1].keys
                      /\ "recipient" \in rest1[1].keys
        paymentOptions == IF hasOptions THEN rest1[1] ELSE UndefinedArg
        rest2 == IF hasOptions THEN shift(rest1) ELSE rest1
        hasSchema == Len(rest2) >= 1 /\ isZodRawShape(rest2[1])
        annotationsFirst == /\ Len(rest2) >= 1
                            /\ ~hasSchema
                            /\ isObject(rest2[1])
                            /\ "title" \in rest2[1].keys
        inputSchema == IF hasSchema THEN rest2[1] ELSE UndefinedArg
        rest3 == IF hasSchema \/ annotationsFirst THEN shift(rest2) ELSE rest2
        annotationsSecond == /\ Len(rest3) >= 1
                             /\ isObject(rest3[1])
                             /\ "title" \in rest3[1].keys
        annotations == IF annotationsSecond THEN rest3[1]
                       ELSE IF annotationsFirst THEN rest2[1]
                       ELSE UndefinedArg
        rest4 == IF annotationsSecond THEN shift(rest3) ELSE rest3
        cb == IF Len(rest4) >= 1 THEN rest4[1] ELSE UndefinedArg
        schemaForCallback == inputSchema.shape
        toolDescription == IF description = undefined \/ description = ""
                           THEN "Paid tool " \o name ELSE description
        fullDescription ==
            <<toolDescription, "\nIMPORTANT: Payflow payment details:\n-Price: ",
              ToString(paymentOptions.price), "\n- Recipient: ", paymentOptions.recipient>>
        none == [name |-> name, description |-> <<>>, inputSchema |-> EmptyShape,
                 annotations |-> UndefinedArg,
                 callback |-> [name |-> name, price |-> 0, recipient |-> "",
                               schema |-> EmptyShape, cb |-> UndefinedArg]]
    IN  IF Len(rest4) > 1
        THEN [threw |-> TRUE, error |-> Error(<<"Too many arguments to paidTool()">>),
              tool |-> none]
        ELSE IF ~hasOptions
        THEN [threw |-> TRUE,
              error |-> Error(<<"PaymentOptions are required for paidTool()">>),
              tool |-> none]
        ELSE [threw |-> FALSE, error |-> NoError,
              tool |-> [name |-> name,
                        description |-> fullDescription,
                        inputSchema |-> finalSchema(inputSchema.shape),
                        annotations |-> annotations,
                        callback |-> [name |-> name,
                                      price |-> paymentOptions.price,
                                      recipient |-> paymentOptions.recipient,
                                      schema |-> schemaForCallback,
                                      cb |-> cb]]]

\* the highest price tried, in ten-thousandths of a dollar
MaxPrice == 30

(***************************************************************************)
(* Inputs.                                                                 *)
(***************************************************************************)
ToolNames == {"generate_text"}

Recipient == "0x1234"

\* the declared params of the README example, and the values callers send
PromptShape == [prompt |-> "string"]
\* declared params with one the caller named payment
PaymentShape == [payment |-> "number"]
StringValue == [t |-> "string", v |-> "hi"]
NumberValue == [t |-> "number", v |-> "7"]

\* argument lists of paidTool (after the name)
RestInputs ==
    { <<StringArg("Generates text"), OptionsArg(500, Recipient), ShapeArg(PromptShape),
        FunctionArg(2)>>,
      <<StringArg("Generates text"), OptionsArg(500, Recipient), ShapeArg(PromptShape),
        FunctionArg(1)>>,
      <<OptionsArg(500, Recipient), FunctionArg(0)>>,
      <<OptionsArg(0, Recipient), FunctionArg(1)>>,
      <<OptionsWithNetworkArg(500, Recipient, "base-sepolia"), ShapeArg(PromptShape),
        FunctionArg(2)>>,
      <<OptionsArg(500, Recipient), ShapeArg(PaymentShape), FunctionArg(2)>>,
      <<StringArg("Generates text"), FunctionArg(1)>>,
      <<OptionsArg(500, Recipient), PlainObjectArg({"readOnlyHint"}), PlainObjectArg({"x"}),
        FunctionArg(1)>> }

\* the arguments of a call: the payment token and the declared params
CallArgs ==
    {[payment |-> t] : t \in Tokens}
    \cup {[payment |-> t, prompt |-> v] : t \in Tokens, v \in {StringValue}}

\* the context the transport passes with call i
Context(i) == [sessionId |-> "session-1", requestId |-> ToString(i)]

\* what the facilitator may answer
InvalidReasons ==
    {"insufficient_funds",
     "invalid_exact_evm_payload_authorization_value",
     "invalid_network",
     "unexpected_verify_error",
     undefined}

VerifyResponses ==
    {[isValid |-> TRUE, invalidReason |-> undefined]}
    \cup {[isValid |-> FALSE, invalidReason |-> r] : r \in InvalidReasons}

\* every settlement has a transaction hash of its own
SettleResponses(i) ==
    {[success |-> TRUE, transaction |-> "0xTXHASH" \o ToString(i), errorReason |-> undefined]}
    \cup {[success |-> FALSE, transaction |-> undefined, errorReason |-> r] :
            r \in {"insufficient_funds", undefined}}

FacilitatorFaults == {[name |-> "FetchError", message |-> <<"fetch failed">>]}

\* what a wrapped handler may throw and return
HandlerThrows == {Error(<<"boom">>), ThrownString("boom"), Error(<<"insufficient_funds">>)}

TextSegment(parts) == [type |-> "text", text |-> Text(parts), isError |-> FALSE]

HandlerContents ==
    { <<TextSegment(<<"first">>), TextSegment(<<"second">>)>> }

\* the identity of a result object that a handler keeps and returns on every call
SharedResult == "shared"
\* the identity of the result object a handler creates in invocation i
FreshResult(i) == "fresh-" \o ToString(i)
\* no object
NoRef == "none"

(***************************************************************************)
(* State.                                                                  *)
(***************************************************************************)
VARIABLES
    options,          \* this.options of the server
    registeredTools,  \* the tools registered with the underlying McpServer, by name
    registration,     \* the last paidTool call: its arguments and how it ended
    pc,               \* where each invocation of a paid callback stands
    frame,            \* the locals of each invocation
    log,              \* the external calls each invocation made and their answers
    outcome,          \* what each invocation returned or threw
    heap,             \* the content list of every result object
    probe             \* a function under test: its inputs and its result

vars == <<options, registeredTools, registration, pc, frame, log, outcome, heap, probe>>

NoFrame ==
    [name |-> "", args |-> EmptyObject, toolArgs |-> EmptyObject,
     context |-> EmptyObject, payload |-> MalformedToken.body,
     requirements |-> NoRequirements, result |-> NoRef]

Pending == [kind |-> "pending", ref |-> NoRef, content |-> <<>>, error |-> NoError]

\* return { content: [{ type: 'text', text: error, isError: true }] }
ErrorEnvelope(error) ==
    [kind |-> "returned", ref |-> NoRef,
     content |-> << [type |-> "text", text |-> error, isError |-> TRUE] >>,
     error |-> NoError]

\* return result: the object the handler returned, with the content it has then
ReturnResult(ref, content) ==
    [kind |-> "returned", ref |-> ref, content |-> content, error |-> NoError]

\* an exception that leaves the callback: the promise it returned rejects
Threw(error) == [kind |-> "threw", ref |-> NoRef, content |-> <<>>, error |-> error]

\* what paidTool(name, ...args) left behind: whether it threw, and whether it
\* got as far as this.tool(...)
Registration(name, args, threw, error, toolCalled) ==
    [name |-> name, args |-> args, threw |-> threw, error |-> error,
     toolCalled |-> toolCalled]

\* no function is under test
NoProbe == [fn |-> "none"]

Event(op, ev, value) == [op |-> op, ev |-> ev, value |-> value]

\* constructor: the x402 options are the defaults overridden by the caller's
Constructor(userX402) ==
    [x402 |-> [version |-> IF userX402.hasVersion THEN userX402.version ELSE 1]]

UserX402Options ==
    {[hasVersion |-> FALSE, version |-> 0], [hasVersion |-> TRUE, version |-> 2]}

\* the paidTool arguments of the README example
ReadmeExample ==
    <<StringArg("Generates text"), OptionsArg(500, Recipient), ShapeArg(PromptShape),
      FunctionArg(1)>>

\* the state after the server is set up: constructed, and one paid tool
\* registered by a paidTool call that succeeded; an x402 version of the
\* caller's is tried with the tool of the README example
Init ==
    \E u \in UserX402Options, name \in ToolNames, args \in RestInputs :
        /\ u.hasVersion => args = ReadmeExample
        /\ ~paidTool(name, args).threw
        /\ options = Constructor(u)
        /\ registeredTools = (name :> paidTool(name, args).tool)
        /\ registration = Registration(name, args, FALSE, NoError, TRUE)
        /\ pc = [i \in Invocations |-> "idle"]
        /\ frame = [i \in Invocations |-> NoFrame]
        /\ log = [i \in Invocations |-> <<>>]
        /\ outcome = [i \in Invocations |-> Pending]
        /\ heap = [r \in {SharedResult} \cup {FreshResult(i) : i \in Invocations} |->
                     IF r = SharedResult THEN <<TextSegment(<<"Hello, World!">>)>> ELSE <<>>]
        /\ probe = NoProbe

(***************************************************************************)
(* Registration.  Tools are registered while the server is set up, before  *)
(* it takes calls.  McpServer.tool() refuses a name that is registered.    *)
(* Init below is the state such a set-up leaves; the pipeline runs from it. *)
(***************************************************************************)
\* a server that lets a tool with a parameter schema take the place of the
\* registered tool of its name
McpServerTool_SchemaReplaces(registered, name, registeredTool) ==
    IF name \in DOMAIN registered /\ DOMAIN registeredTool.callback.schema = {}
    THEN [threw |-> TRUE, registered |-> registered,
          error |-> Error(<<"Tool ", name, " is already registered">>)]
    ELSE [threw |-> FALSE, error |-> NoError,
          registered |-> (name :> registeredTool) @@ registered]

\* McpServer.tool(name, ...): refuses a name that is registered, and keeps
\* the tool that has it
McpServerTool(registered, name, registeredTool) ==
    IF name \in DOMAIN registered
    THEN [threw |-> TRUE, registered |-> registered,
          error |-> Error(<<"Tool ", name, " is already registered">>)]
    ELSE [threw |-> FALSE, error |-> NoError,
          registered |-> (name :> registeredTool) @@ registered]

\* a registration that hands the tool to the server before it checks its arguments
PaidTool_RegistersBeforeChecking(name, args) ==
    /\ \A i \in Invocations : pc[i] = "idle"
    /\ LET r == paidTool(name, args)
       IN  /\ registration' = Registration(name, args, r.threw, r.error, TRUE)
           /\ registeredTools' = (name :> r.tool) @@ registeredTools
    /\ UNCHANGED <<probe, options, pc, frame, log, outcome, heap>>

PaidTool(name, args) ==
    /\ \A i \in Invocations : pc[i] = "idle"
    /\ LET r == paidTool(name, args)
           t == McpServerTool(registeredTools, name, r.tool)
       IN  IF r.threw
           THEN /\ registration' = Registration(name, args, TRUE, r.error, FALSE)
                /\ UNCHANGED registeredTools
           ELSE /\ registration' = Registration(name, args, t.threw, t.error, TRUE)
                /\ registeredTools' = t.registered
    /\ UNCHANGED <<probe, options, pc, frame, log, outcome, heap>>

(***************************************************************************)
(* The paid callback (createPaidCallback).                                 *)
(***************************************************************************)
\* args passed on with the payment field in them
withoutPayment_KeepsPayment(args) == args

\* const { payment, ...toolArgs } = args
withoutPayment(args) == [k \in DOMAIN args \ {"payment"} |-> args[k]]

\* a dispatch that passes the args to every handler that declares a parameter
invokeCallback_AnyParameter(cb, toolArgs, context) ==
    IF cb.kind # "function"
    THEN [threw |-> TRUE, args |-> <<>>,
          error |-> [name |-> "TypeError", message |-> <<"cb is not a function">>]]
    ELSE IF cb.len > 0
    THEN [threw |-> FALSE, args |-> <<toolArgs, context>>, error |-> NoError]
    ELSE [threw |-> FALSE, args |-> <<context>>, error |-> NoError]

\* a dispatch that hands the handler a context of its own making
invokeCallback_OwnContext(cb, toolArgs, context) ==
    IF cb.kind # "function"
    THEN [threw |-> TRUE, args |-> <<>>,
          error |-> [name |-> "TypeError", message |-> <<"cb is not a function">>]]
    ELSE IF cb.len > 1
    THEN [threw |-> FALSE, args |-> <<toolArgs, [context EXCEPT !.sessionId = ""]>>,
          error |-> NoError]
    ELSE [threw |-> FALSE, args |-> <<[context EXCEPT !.sessionId = ""]>>, error |-> NoError]

\* the arguments the wrapped handler is called with, by its declared
\* parameter count; calling what is no function throws a TypeError
invokeCallback(cb, toolArgs, context) ==
    IF cb.kind # "function"
    THEN [threw |-> TRUE, args |-> <<>>,
          error |-> [name |-> "TypeError", message |-> <<"cb is not a function">>]]
    ELSE IF cb.len > 1
    THEN [threw |-> FALSE, args |-> <<toolArgs, context>>, error |-> NoError]
    ELSE [threw |-> FALSE, args |-> <<context>>, error |-> NoError]

\* a payload sent on with the version its token carried
payloadWithVersion_OfToken(payload, opts) == payload

\* payload.x402Version = this.options.x402?.version ?? 1
payloadWithVersion(payload, opts) == [payload EXCEPT !.x402Version = opts.x402.version]

\* a callback that reads the price and the recipient from the caller's
\* PaymentOptions object on every call
createPaidCallback_LiveOptions(paid) ==
    IF probe.fn = "paymentOptions"
    THEN [paid EXCEPT !.price = probe.paymentOptions.price,
                      !.recipient = probe.paymentOptions.recipient]
    ELSE paid

\* the callback createPaidCallback returned: name, price, recipient, schema
\* and cb are its parameters, bound to the values paidTool passed
createPaidCallback(paid) == paid

Finish(i, out) ==
    /\ pc' = [pc EXCEPT ![i] = "done"]
    /\ outcome' = [outcome EXCEPT ![i] = out]

\* The call arrives: validation, decoding and the requirements run without
\* an await, then verify is called.  Invocations are numbered as they arrive.
Call(i, name, args) ==
    /\ pc[i] = "idle"
    /\ \A j \in Invocations : j < i => pc[j] # "idle"
    /\ name \in DOMAIN registeredTools
    /\ LET paid == createPaidCallback(registeredTools[name].callback)
           toolArgs == withoutPayment(args)
           parsed == schemaParse(paid.schema, toolArgs)
           decoded == decodePayment(args.payment)
           payload == payloadWithVersion(decoded.value, options)
           generated == generateRequirements(payload, paid.name, paid.price,
                                             paid.recipient, "base")
           received == [NoFrame EXCEPT !.name = name, !.args = args,
                                       !.toolArgs = toolArgs, !.context = Context(i)]
       IN  IF ~parsed.ok
           THEN /\ Finish(i, Threw(parsed.error))
                /\ frame' = [frame EXCEPT ![i] = received]
                /\ UNCHANGED log
           ELSE IF ~decoded.ok
           THEN /\ Finish(i, Threw(decoded.error))
                /\ frame' = [frame EXCEPT ![i] = received]
                /\ UNCHANGED log
           ELSE IF ~generated.ok
           THEN /\ Finish(i, ErrorEnvelope(generated.error))
                /\ frame' = [frame EXCEPT ![i] = [received EXCEPT !.payload = payload]]
                /\ UNCHANGED log
           ELSE /\ pc' = [pc EXCEPT ![i] = "verify"]
                /\ frame' = [frame EXCEPT ![i] =
                       [received EXCEPT !.payload = payload,
                                        !.requirements = generated.value]]
                /\ log' = [log EXCEPT ![i] = Append(@,
                       Event("verify", "call",
                             [payload |-> payload, requirements |-> generated.value]))]
                /\ UNCHANGED outcome
    /\ UNCHANGED <<probe, options, registeredTools, registration, heap>>

\* a callback that remembers the tokens it admitted and refuses one it has seen
VerifyResolves_RefusesSeenToken(i, verifyResponse) ==
    /\ pc[i] = "verify"
    /\ LET verified == verifyPayment(verifyResponse, frame[i].requirements)
           answered == Append(log[i], Event("verify", "resolve", verifyResponse))
           cb == registeredTools[frame[i].name].callback.cb
           invoked == invokeCallback(cb, frame[i].toolArgs, frame[i].context)
           seen == \E j \in Invocations \ {i} :
                      /\ frame[j].args = frame[i].args
                      /\ \E k \in DOMAIN log[j] : log[j][k].op = "handler"
       IN  IF verified.threw
           THEN /\ Finish(i, ErrorEnvelope(verified.error))
                /\ log' = [log EXCEPT ![i] = answered]
           ELSE IF seen
           THEN /\ Finish(i, ErrorEnvelope(Error(<<"Payment already used">>)))
                /\ log' = [log EXCEPT ![i] = answered]
           ELSE IF invoked.threw
           THEN /\ Finish(i, ErrorEnvelope(invoked.error))
                /\ log' = [log EXCEPT ![i] = answered]
           ELSE /\ pc' = [pc EXCEPT ![i] = "handler"]
                /\ log' = [log EXCEPT ![i] =
                       Append(answered, Event("handler", "call", [args |-> invoked.args]))]
                /\ UNCHANGED outcome
    /\ UNCHANGED <<probe, options, registeredTools, registration, frame, heap>>

\* verify answered: a rejection ends the call, otherwise the handler is called
VerifyResolves(i, verifyResponse) ==
    /\ pc[i] = "verify"
    /\ LET verified == verifyPayment(verifyResponse, frame[i].requirements)
           answered == Append(log[i], Event("verify", "resolve", verifyResponse))
           cb == registeredTools[frame[i].name].callback.cb
           invoked == invokeCallback(cb, frame[i].toolArgs, frame[i].context)
       IN  IF verified.threw
           THEN /\ Finish(i, ErrorEnvelope(verified.error))
                /\ log' = [log EXCEPT ![i] = answered]
           ELSE IF invoked.threw
           THEN /\ Finish(i, ErrorEnvelope(invoked.error))
                /\ log' = [log EXCEPT ![i] = answered]
           ELSE /\ pc' = [pc EXCEPT ![i] = "handler"]
                /\ log' = [log EXCEPT ![i] =
                       Append(answered, Event("handler", "call", [args |-> invoked.args]))]
                /\ UNCHANGED outcome
    /\ UNCHANGED <<probe, options, registeredTools, registration, frame, heap>>

\* a verify call that is made again when it fails
VerifyRejects_Retries(i, fault) ==
    /\ pc[i] = "verify"
    /\ log' = [log EXCEPT ![i] =
           Append(Append(@, Event("verify", "reject", fault)),
                  Event("verify", "call",
                        [payload |-> frame[i].payload,
                         requirements |-> frame[i].requirements]))]
    /\ UNCHANGED <<probe, options, registeredTools, registration, pc, frame, heap, outcome>>

\* the verify call itself failed (the facilitator could not be reached)
VerifyRejects(i, fault) ==
    /\ pc[i] = "verify"
    /\ Finish(i, ErrorEnvelope(fault))
    /\ log' = [log EXCEPT ![i] = Append(@, Event("verify", "reject", fault))]
    /\ UNCHANGED <<probe, options, registeredTools, registration, frame, heap>>

\* the handler returned the result object ref, whose content is then content
\* (a fresh object, or the one object it returns on every call); settle is called
CallbackResolves(i, ref, content) ==
    /\ pc[i] = "handler"
    /\ ref = SharedResult => content = heap[SharedResult]
    /\ pc' = [pc EXCEPT ![i] = "settle"]
    /\ heap' = [heap EXCEPT ![ref] = content]
    /\ frame' = [frame EXCEPT ![i].result = ref]
    /\ log' = [log EXCEPT ![i] =
           Append(Append(@, Event("handler", "resolve", [ref |-> ref, content |-> content])),
                  Event("settle", "call",
                        [payload |-> frame[i].payload,
                         requirements |-> frame[i].requirements]))]
    /\ UNCHANGED <<probe, options, registeredTools, registration, outcome>>

\* a handler failure after which the payment is settled all the same
CallbackRejects_ThenSettles(i, error) ==
    /\ pc[i] = "handler"
    /\ pc' = [pc EXCEPT ![i] = "settle"]
    /\ log' = [log EXCEPT ![i] =
           Append(Append(@, Event("handler", "reject", error)),
                  Event("settle", "call",
                        [payload |-> frame[i].payload,
                         requirements |-> frame[i].requirements]))]
    /\ UNCHANGED <<probe, options, registeredTools, registration, frame, heap, outcome>>

\* a handler failure reported without the handler's error
CallbackRejects_HidesError(i, error) ==
    /\ pc[i] = "handler"
    /\ Finish(i, ErrorEnvelope(Error(<<"Tool execution failed">>)))
    /\ log' = [log EXCEPT ![i] = Append(@, Event("handler", "reject", error))]
    /\ UNCHANGED <<probe, options, registeredTools, registration, frame, heap>>

\* the handler threw
CallbackRejects(i, error) ==
    /\ pc[i] = "handler"
    /\ Finish(i, ErrorEnvelope(error))
    /\ log' = [log EXCEPT ![i] = Append(@, Event("handler", "reject", error))]
    /\ UNCHANGED <<probe, options, registeredTools, registration, frame, heap>>

\* a success that returns a copy of the handler's result with the payment
\* reference, and leaves the handler's object as it is
SettleResolves_ReturnsCopy(i, settleResponse) ==
    /\ pc[i] = "settle"
    /\ LET settled == settlePayment(settleResponse)
       IN  IF settled.threw
           THEN Finish(i, ErrorEnvelope(settled.error))
           ELSE Finish(i, ReturnResult(frame[i].result,
                    Append(heap[frame[i].result],
                           TextSegment(<<"Payment: ", settleResponse.transaction>>))))
    /\ log' = [log EXCEPT ![i] = Append(@, Event("settle", "resolve", settleResponse))]
    /\ UNCHANGED <<probe, options, registeredTools, registration, frame, heap>>

\* a settle failure after which what the handler wrote is taken back
SettleResolves_UndoesHandler(i, settleResponse) ==
    /\ pc[i] = "settle"
    /\ LET settled == settlePayment(settleResponse)
       IN  IF settled.threw
           THEN /\ Finish(i, ErrorEnvelope(settled.error))
                /\ heap' = [heap EXCEPT ![frame[i].result] = <<>>]
           ELSE /\ heap' = [heap EXCEPT ![frame[i].result] = Append(@,
                       TextSegment(<<"Payment: ", settleResponse.transaction>>))]
                /\ Finish(i, ReturnResult(frame[i].result, heap'[frame[i].result]))
    /\ log' = [log EXCEPT ![i] = Append(@, Event("settle", "resolve", settleResponse))]
    /\ UNCHANGED <<probe, options, registeredTools, registration, frame>>

\* settle answered: a failure ends the call with an error, otherwise the
\* payment reference is pushed onto the handler's result, which is returned
SettleResolves(i, settleResponse) ==
    /\ pc[i] = "settle"
    /\ LET settled == settlePayment(settleResponse)
       IN  IF settled.threw
           THEN /\ Finish(i, ErrorEnvelope(settled.error))
                /\ UNCHANGED heap
           ELSE /\ heap' = [heap EXCEPT ![frame[i].result] = Append(@,
                       TextSegment(<<"Payment: ", settleResponse.transaction>>))]
                /\ Finish(i, ReturnResult(frame[i].result, heap'[frame[i].result]))
    /\ log' = [log EXCEPT ![i] = Append(@, Event("settle", "resolve", settleResponse))]
    /\ UNCHANGED <<probe, options, registeredTools, registration, frame>>

\* a settle failure after which the callback waits for something that never comes
SettleRejects_WaitsForever(i, fault) ==
    /\ pc[i] = "settle"
    /\ pc' = [pc EXCEPT ![i] = "waiting"]
    /\ log' = [log EXCEPT ![i] = Append(@, Event("settle", "reject", fault))]
    /\ UNCHANGED <<probe, options, registeredTools, registration, frame, heap, outcome>>

\* a settle failure after which the handler's result is returned all the same
SettleRejects_ReturnsResult(i, fault) ==
    /\ pc[i] = "settle"
    /\ Finish(i, ReturnResult(frame[i].result, heap[frame[i].result]))
    /\ log' = [log EXCEPT ![i] = Append(@, Event("settle", "reject", fault))]
    /\ UNCHANGED <<probe, options, registeredTools, registration, frame, heap>>

\* the settle call itself failed
SettleRejects(i, fault) ==
    /\ pc[i] = "settle"
    /\ Finish(i, ErrorEnvelope(fault))
    /\ log' = [log EXCEPT ![i] = Append(@, Event("settle", "reject", fault))]
    /\ UNCHANGED <<probe, options, registeredTools, registration, frame, heap>>

Next ==
    \/ \E i \in Invocations, name \in ToolNames, args \in CallArgs : Call(i, name, args)
    \/ \E i \in Invocations, r \in VerifyResponses : VerifyResolves(i, r)
    \/ \E i \in Invocations, f \in FacilitatorFaults : VerifyRejects(i, f)
    \/ \E i \in Invocations, c \in HandlerContents :
          \/ CallbackResolves(i, FreshResult(i), c)
          \/ CallbackResolves(i, SharedResult, heap[SharedResult])
    \/ \E i \in Invocations, e \in HandlerThrows : CallbackRejects(i, e)
    \/ \E i \in Invocations : \E r \in SettleResponses(i) : SettleResolves(i, r)
    \/ \E i \in Invocations, f \in FacilitatorFaults : SettleRejects(i, f)

Spec == Init /\ [][Next]_vars

(***************************************************************************)
(* Observations on an invocation.                                          *)
(***************************************************************************)
Events(i, op, ev) == {k \in DOMAIN log[i] : log[i][k].op = op /\ log[i][k].ev = ev}

CallCount(i, op) == Cardinality(Events(i, op, "call"))

\* the callback returned { content: [{ type: 'text', text, isError: true }] }
IsErrorEnvelope(out) ==
    /\ out.kind = "returned"
    /\ out.ref = NoRef
    /\ Len(out.content) = 1
    /\ out.content[1].type = "text"
    /\ out.content[1].isError = TRUE

\* the callback returned the handler's result
IsSuccess(out) == out.kind = "returned" /\ out.ref # NoRef

\* verify answered isValid = false at position k of invocation i
VerifyRefusedAt(i, k) ==
    /\ log[i][k].op = "verify"
    /\ log[i][k].ev = "resolve"
    /\ ~log[i][k].value.isValid

\* settle answered success = false, or failed, at position k of invocation i
SettleFailedAt(i, k) ==
    /\ log[i][k].op = "settle"
    /\ \/ log[i][k].ev = "reject"
       \/ log[i][k].ev = "resolve" /\ ~log[i][k].value.success

\* the error settlePayment raises for what settle did at position k
SettleErrorAt(i, k) ==
    IF log[i][k].ev = "reject" THEN log[i][k].value
    ELSE IF log[i][k].value.errorReason = undefined
    THEN [name |-> "Error", message |-> <<>>]
    ELSE [name |-> "Error", message |-> <<log[i][k].value.errorReason>>]

\* the declared params of invocation i do not fit the tool's schema
DeclaredParamsMismatch(i) ==
    LET shape == registeredTools[frame[i].name].callback.schema
    IN  \E key \in DOMAIN shape :
            \/ key \notin DOMAIN frame[i].toolArgs
            \/ frame[i].toolArgs[key].t # shape[key]

Received(i) == pc[i] # "idle"

(***************************************************************************)
(* Claims.                                                                 *)
(***************************************************************************)

\* C1: settle is called only if, earlier in the same invocation, verify
\* answered isValid = true and the handler returned; no settle call follows a
\* verification failure or a handler failure.
C1_SettleOnlyAfterVerifiedAndExecuted ==
    \A i \in Invocations :
        /\ \A k \in Events(i, "settle", "call") :
              \E a \in Events(i, "verify", "resolve"), b \in Events(i, "handler", "resolve") :
                  a < b /\ b < k /\ log[i][a].value.isValid
        /\ (\/ \E k \in DOMAIN log[i] : VerifyRefusedAt(i, k)
            \/ Events(i, "verify", "reject") # {}
            \/ Events(i, "handler", "reject") # {})
           => CallCount(i, "settle") = 0

C1_Witness ==
    \E i \in Invocations : CallCount(i, "settle") = 1 /\ pc[i] = "done"

\* C2: when verify answers isValid = false, with any reason or none, the
\* handler is never called in that invocation and the envelope returned has
\* isError true.
C2_InvalidPaymentNeverExecutes ==
    \A i \in Invocations :
        (\E k \in DOMAIN log[i] : VerifyRefusedAt(i, k))
        => /\ CallCount(i, "handler") = 0
           /\ pc[i] = "done"
           /\ IsErrorEnvelope(outcome[i])

C2_Witness ==
    \E i \in Invocations : \E k \in DOMAIN log[i] :
        /\ VerifyRefusedAt(i, k)
        /\ log[i][k].value.invalidReason = "invalid_exact_evm_payload_authorization_value"
        /\ pc[i] = "done"

\* C3: every invocation that ends without success ends with the callback
\* returning the error envelope; the callback never throws.
C3_EveryFailureReturnsEnvelope ==
    \A i \in Invocations :
        pc[i] = "done" => (IsSuccess(outcome[i]) \/ IsErrorEnvelope(outcome[i]))

\* C4: when the handler throws after a successful verification, the
\* invocation returns an envelope with isError true whose text is the
\* handler's error, and settle is never called.
C4_HandlerFailureNotSettled ==
    \A i \in Invocations : \A k \in Events(i, "handler", "reject") :
        /\ pc[i] = "done"
        /\ IsErrorEnvelope(outcome[i])
        /\ outcome[i].content[1].text = log[i][k].value
        /\ CallCount(i, "settle") = 0

C4_Witness ==
    \E i \in Invocations : \E k \in Events(i, "handler", "reject") :
        /\ \E p \in DOMAIN log[i][k].value.message : log[i][k].value.message[p] = "boom"
        /\ \E a \in Events(i, "verify", "resolve") : log[i][a].value.isValid
        /\ pc[i] = "done"

\* C5 as stated: when settle fails after the handler succeeded, the result
\* still holds the handler's output, is marked as an error, and its text
\* holds the settlement failure reason.
C5_SettleFailureKeepsHandlerOutput ==
    \A i \in Invocations : \A k \in DOMAIN log[i] :
        SettleFailedAt(i, k)
        => /\ pc[i] = "done"
           /\ outcome[i].kind = "returned"
           /\ \E h \in Events(i, "handler", "resolve") :
                 \A n \in DOMAIN log[i][h].value.content :
                    \E m \in DOMAIN outcome[i].content :
                        outcome[i].content[m] = log[i][h].value.content[n]
           /\ \E m \in DOMAIN outcome[i].content :
                 /\ outcome[i].content[m].isError
                 /\ outcome[i].content[m].text = SettleErrorAt(i, k)

\* C5 as amended: when settle fails after the handler succeeded, the
\* callback returns an error envelope of exactly one content item, marked
\* isError, whose text is the settlement error (an Error with the
\* facilitator's errorReason as its message, or the fault settle threw); the
\* handler's own output is not part of it.
C5_SettleFailureReturnsOnlyError ==
    \A i \in Invocations : \A k \in DOMAIN log[i] :
        SettleFailedAt(i, k)
        => /\ pc[i] = "done"
           /\ IsErrorEnvelope(outcome[i])
           /\ outcome[i].content[1].text = SettleErrorAt(i, k)
           /\ Events(i, "handler", "resolve") # {}

C5_Witness ==
    \E i \in Invocations : \E k \in Events(i, "settle", "resolve") :
        /\ ~log[i][k].value.success
        /\ log[i][k].value.errorReason = "insufficient_funds"
        /\ pc[i] = "done"

\* C6: on success the content returned is the content the handler returned,
\* unchanged and in order, followed by exactly one segment "Payment: <tx>"
\* with the transaction of this invocation's settle call.
C6_SuccessAppendsOnePaymentSegment ==
    \A i \in Invocations :
        IsSuccess(outcome[i])
        => \E h \in Events(i, "handler", "resolve"), k \in Events(i, "settle", "resolve") :
              outcome[i].content =
                  Append(log[i][h].value.content,
                         [type |-> "text", isError |-> FALSE,
                          text |-> [name |-> "string",
                                    message |-> <<"Payment: ", log[i][k].value.transaction>>]])

\* C7: when the token's scheme or network does not match the requirement,
\* or the price cannot be resolved for the network, the invocation returns
\* an error envelope and calls neither verify, nor the handler, nor settle.
C7_RequirementsFailureCallsNothing ==
    \A i \in Invocations :
        (/\ Received(i)
         /\ ~DeclaredParamsMismatch(i)
         /\ frame[i].args.payment.wellFormed
         /\ \/ frame[i].args.payment.body.scheme # "exact"
            \/ frame[i].args.payment.body.network # "base"
            \/ registeredTools[frame[i].name].callback.price < 1)
        => /\ pc[i] = "done"
           /\ IsErrorEnvelope(outcome[i])
           /\ log[i] = <<>>

C7_Witness ==
    \E i \in Invocations :
        /\ pc[i] = "done"
        /\ frame[i].args.payment = TokenSepolia
        /\ IsErrorEnvelope(outcome[i])

\* C8: a malformed payment token or declared params that do not fit the
\* schema end the invocation before verify, the handler or settle is called.
C8_MalformedInputCallsNothing ==
    \A i \in Invocations :
        (Received(i) /\ (DeclaredParamsMismatch(i) \/ ~frame[i].args.payment.wellFormed))
        => /\ pc[i] = "done"
           /\ log[i] = <<>>

C8_Witness ==
    \E i, j \in Invocations :
        /\ pc[i] = "done" /\ ~frame[i].args.payment.wellFormed /\ ~DeclaredParamsMismatch(i)
        /\ pc[j] = "done" /\ frame[j].args.payment.wellFormed /\ DeclaredParamsMismatch(j)

\* C9: a handler registered with a parameter schema is called with the
\* caller's declared params as its first argument, also when it declares a
\* single (destructured) parameter.
C9_HandlerReceivesDeclaredParams ==
    \A i \in Invocations : \A k \in Events(i, "handler", "call") :
        DOMAIN registeredTools[frame[i].name].callback.schema # {}
        => log[i][k].value.args[1] = frame[i].toolArgs

Descriptions == {StringArg("Generates text")}
Schemas == {ShapeArg(PromptShape), ShapeArg(EmptyShape)}
\* ToolAnnotations: every field of it is optional, title too
AnnotationValues == {PlainObjectArg({"title", "readOnlyHint"}), PlainObjectArg({"readOnlyHint"})}
Handlers == {FunctionArg(1), FunctionArg(2)}

Optional(v) == IF v = UndefinedArg THEN <<>> ELSE <<v>>

\* a call of a documented shape:
\* paidTool(name, [description], options, [paramsSchema, [annotations]], cb)
Documented(d, o, s, a, c) == Optional(d) \o <<o>> \o Optional(s) \o Optional(a) \o <<c>>

DocumentedParts ==
    {p \in [d : Descriptions \cup {UndefinedArg}, o : {OptionsArg(500, Recipient)},
            s : Schemas \cup {UndefinedArg}, a : AnnotationValues \cup {UndefinedArg},
            c : Handlers] :
        p.s = UndefinedArg => p.a = UndefinedArg}

DocumentedCalls == {Documented(p.d, p.o, p.s, p.a, p.c) : p \in DocumentedParts}

\* calls of no documented shape
MalformedCalls ==
    { <<FunctionArg(1)>>,
      <<PlainObjectArg({"price"}), FunctionArg(1)>>,
      <<StringArg("Generates text"), ShapeArg(PromptShape), FunctionArg(1)>>,
      <<OptionsArg(500, Recipient)>>,
      <<StringArg("Generates text"), OptionsArg(500, Recipient), ShapeArg(PromptShape)>>,
      <<OptionsArg(500, Recipient), ShapeArg(PromptShape),
        PlainObjectArg({"title", "readOnlyHint"}), FunctionArg(1), FunctionArg(2)>>,
      <<OptionsArg(500, Recipient), FunctionArg(1), FunctionArg(2)>> }

RegistrationInputs == RestInputs \cup DocumentedCalls \cup MalformedCalls

\* the server after its constructor: no tool is registered
InitRegistration ==
    \E u \in UserX402Options :
        /\ options = Constructor(u)
        /\ registeredTools = << >>
        /\ registration = Registration("", <<>>, FALSE, NoError, FALSE)
        /\ pc = [i \in Invocations |-> "idle"]
        /\ frame = [i \in Invocations |-> NoFrame]
        /\ log = [i \in Invocations |-> <<>>]
        /\ outcome = [i \in Invocations |-> Pending]
        /\ heap = [r \in {SharedResult} \cup {FreshResult(i) : i \in Invocations} |->
                     IF r = SharedResult THEN <<TextSegment(<<"Hello, World!">>)>> ELSE <<>>]
        /\ probe = NoProbe

NextRegistration ==
    \E name \in ToolNames, args \in RegistrationInputs : PaidTool(name, args)

SpecRegistration == InitRegistration /\ [][NextRegistration]_vars

\* some argument is an object that carries both a price and a recipient
HasPaymentOptions(args) ==
    \E k \in 1..Len(args) :
        isObject(args[k]) /\ {"price", "recipient"} \subseteq args[k].keys

\* paidTool has been called
Called == registration.args # <<>>

\* C11: a paidTool call none of whose arguments is a PaymentOptions object
\* (an object with both a price and a recipient) throws at registration, and
\* tool() of the underlying server is not called for it.
C11_MissingOptionsThrowsAtRegistration ==
    (Called /\ ~HasPaymentOptions(registration.args)) =>
        /\ registration.threw
        /\ registration.error.name = "Error"
        /\ ~registration.toolCalled

C11_Witness ==
    /\ Called
    /\ ~HasPaymentOptions(registration.args)
    /\ registration.threw
    /\ registration.error = Error(<<"PaymentOptions are required for paidTool()">>)
    /\ registeredTools = << >>

\* the last argument is no function
NoHandlerInTail(args) == Len(args) = 0 \/ args[Len(args)].kind # "function"

\* a call of a documented shape with one more argument after its handler
TooManyArguments(args) ==
    \E p \in DocumentedParts, extra \in Handlers :
        args = Documented(p.d, p.o, p.s, p.a, p.c) \o <<extra>>

\* C12: a paidTool call with more positional arguments than any recognized
\* shape accepts, or with no handler in the tail position, throws a
\* configuration error, and no tool is registered by it.
C12_TooManyOrNoHandlerThrows ==
    (Called /\ (TooManyArguments(registration.args) \/ NoHandlerInTail(registration.args))) =>
        /\ registration.threw
        /\ ~registration.toolCalled

\* the tool the last paidTool call registered
LastTool == registeredTools[registration.name]

\* the last paidTool call registered its tool
Registered ==
    /\ Called
    /\ ~registration.threw
    /\ registration.name \in DOMAIN registeredTools

\* C13: a paidTool call of a documented shape (with or without description,
\* schema, annotations), each position holding a valid value, a
\* ToolAnnotations object without a title included, succeeds and binds the
\* description, options, schema, annotations and handler to the arguments
\* given in those positions.
C13_DocumentedShapesBind ==
    \A p \in DocumentedParts :
        (registration.args = Documented(p.d, p.o, p.s, p.a, p.c)
           /\ registration.error # Error(<<"Tool ", registration.name, " is already registered">>))
        => /\ Registered
           /\ LastTool.callback.cb = p.c
           /\ LastTool.callback.price = p.o.price
           /\ LastTool.callback.recipient = p.o.recipient
           /\ LastTool.annotations = p.a
           /\ LastTool.callback.schema = p.s.shape
           /\ LastTool.description[1] =
                IF p.d = UndefinedArg THEN "Paid tool " \o registration.name ELSE p.d.str

\* the parameter schema given to a paidTool call: the argument that is a
\* non-empty shape, if there is one
DeclaredShape(args) ==
    IF \E k \in 1..Len(args) : DOMAIN args[k].shape # {}
    THEN (CHOOSE a \in {args[k] : k \in 1..Len(args)} : DOMAIN a.shape # {}).shape
    ELSE EmptyShape

\* C14: the parameter schema a paidTool call registers is the declared
\* parameters plus one required string field named payment; with no declared
\* schema it is the payment field alone.
C14_RegisteredSchemaAddsPayment ==
    Registered =>
        LET declared == DeclaredShape(registration.args)
            schema == LastTool.inputSchema
        IN  /\ DOMAIN schema = DOMAIN declared \cup {"payment"}
            /\ schema["payment"] = "string"
            /\ \A k \in DOMAIN declared \ {"payment"} : schema[k] = declared[k]

C14_Witness ==
    /\ Registered
    /\ DeclaredShape(registration.args) = PromptShape
    /\ LastTool.inputSchema = [prompt |-> "string", payment |-> "string"]

\* the PaymentOptions object among the arguments of a paidTool call
PaymentOptionsOf(args) ==
    CHOOSE a \in {args[k] : k \in 1..Len(args)} :
        isObject(a) /\ {"price", "recipient"} \subseteq a.keys

\* the network the PaymentOptions ask for: the one they name, Base when they name none
NetworkOf(paymentOptions) ==
    IF "network" \in paymentOptions.keys THEN paymentOptions.network ELSE "base"

\* C15: the payment requirement of a call is derived from the PaymentOptions
\* of the tool's registration: their price and recipient, and the network they
\* name when they name one (Base only when they name none).
C15_RequirementFromPaymentOptions ==
    \A i \in Invocations :
        frame[i].requirements # NoRequirements =>
            LET paymentOptions == PaymentOptionsOf(registration.args)
                network == NetworkOf(paymentOptions)
            IN  /\ frame[i].requirements.payTo = paymentOptions.recipient
                /\ frame[i].requirements.network = network
                /\ frame[i].requirements.maxAmountRequired =
                     processPriceToAtomicAmount(paymentOptions.price, network).maxAmountRequired

\* a stage of invocation i refused or failed at position k of its log
FailedAt(i, k) ==
    \/ VerifyRefusedAt(i, k)
    \/ log[i][k].op = "verify" /\ log[i][k].ev = "reject"
    \/ log[i][k].op = "handler" /\ log[i][k].ev = "reject"
    \/ SettleFailedAt(i, k)

\* C16: an invocation calls verify at most once, the wrapped handler at most
\* once and settle at most once; after a rejection or a fault of any of them
\* nothing is called again and no later stage runs.
C16_EachStageAtMostOnceNoRetry ==
    \A i \in Invocations :
        /\ CallCount(i, "verify") <= 1
        /\ CallCount(i, "handler") <= 1
        /\ CallCount(i, "settle") <= 1
        /\ \A k \in DOMAIN log[i] :
              FailedAt(i, k) => k = Len(log[i]) /\ pc[i] = "done"

C16_Witness ==
    \E i \in Invocations :
        /\ pc[i] = "done"
        /\ Len(log[i]) = 2
        /\ log[i][2].op = "verify" /\ log[i][2].ev = "reject"
        /\ CallCount(i, "verify") = 1
        /\ CallCount(i, "handler") = 0
        /\ CallCount(i, "settle") = 0

\* what invocation i returns by the answers it got itself: the last entry of
\* its own log decides, with its own frame
OwnOutcome(i) ==
    LET n == Len(log[i])
        last == log[i][n]
    IN  CASE last.op = "verify" /\ last.ev = "reject" -> ErrorEnvelope(last.value)
          [] last.op = "verify" /\ last.ev = "resolve" /\ ~last.value.isValid ->
                ErrorEnvelope(enrichVerificationError(frame[i].requirements,
                                                      last.value.invalidReason))
          [] last.op = "verify" /\ last.ev = "resolve" /\ last.value.isValid ->
                ErrorEnvelope([name |-> "TypeError", message |-> <<"cb is not a function">>])
          [] last.op = "handler" /\ last.ev = "reject" -> ErrorEnvelope(last.value)
          [] SettleFailedAt(i, n) -> ErrorEnvelope(SettleErrorAt(i, n))
          [] OTHER ->
                ReturnResult(log[i][n - 2].value.ref,
                             Append(log[i][n - 2].value.content,
                                    TextSegment(<<"Payment: ", last.value.transaction>>)))

\* C17: the callback keeps no state that invocations share, so what an
\* invocation returns is decided by its own arguments and the answers it got
\* itself, however its steps interleave with those of other invocations.
C17_OutcomeIndependentOfInterleaving ==
    \A i \in Invocations :
        (pc[i] = "done" /\ log[i] # <<>>) => outcome[i] = OwnOutcome(i)

\* invocation i ended because settle refused or failed after its handler returned
EndedInSettleFailure(i) ==
    /\ pc[i] = "done"
    /\ log[i] # <<>>
    /\ SettleFailedAt(i, Len(log[i]))
    /\ Events(i, "handler", "resolve") # {}

\* invocation i ended because its handler threw
EndedInHandlerFailure(i) ==
    /\ pc[i] = "done"
    /\ log[i] # <<>>
    /\ log[i][Len(log[i])].op = "handler"
    /\ log[i][Len(log[i])].ev = "reject"

\* C18: a settlement failure is surfaced distinctly from an execution
\* failure: what is returned when settle fails after the handler ran differs
\* from what is returned when the handler threw.
C18_SettleFailureDistinctFromHandlerFailure ==
    \A i, j \in Invocations :
        (EndedInSettleFailure(i) /\ EndedInHandlerFailure(j)) => outcome[i] # outcome[j]

(***************************************************************************)
(* Functions on their own: the inputs are drawn in the initial state and   *)
(* the function under test is applied to them in one step.                 *)
(***************************************************************************)
\* no call is in flight
NoTraffic ==
    /\ pc = [i \in Invocations |-> "idle"]
    /\ frame = [i \in Invocations |-> NoFrame]
    /\ log = [i \in Invocations |-> <<>>]
    /\ outcome = [i \in Invocations |-> Pending]
    /\ heap = [r \in {SharedResult} \cup {FreshResult(i) : i \in Invocations} |->
                 IF r = SharedResult THEN <<TextSegment(<<"Hello, World!">>)>> ELSE <<>>]

\* the reasons enrichVerificationError has a case for
EnrichedReasons ==
    {"insufficient_funds",
     "invalid_exact_evm_payload_authorization_valid_after",
     "invalid_exact_evm_payload_authorization_valid_before",
     "invalid_exact_evm_payload_authorization_value",
     "invalid_exact_evm_payload_signature",
     "invalid_exact_evm_payload_recipient_mismatch",
     "invalid_network"}

\* every reason a verify response may carry, none and the empty one included
AllReasons ==
    EnrichedReasons \cup {"invalid_scheme", "unexpected_verify_error", undefined, ""}

\* requirements as generateRequirements builds them
ProbedRequirements ==
    {generateRequirements(Payload(1, "exact", n, "auth"), "generate_text", p, r, n).value :
        n \in KnownNetworks, p \in {1, 500, 20000}, r \in {Recipient, "0xabcd"}}

InitEnrich ==
    \E u \in UserX402Options, q \in ProbedRequirements, reason \in AllReasons :
        /\ options = Constructor(u)
        /\ registeredTools = << >>
        /\ registration = Registration("", <<>>, FALSE, NoError, FALSE)
        /\ NoTraffic
        /\ probe = [fn |-> "enrichVerificationError", requirements |-> q,
                    reason |-> reason, done |-> FALSE, result |-> NoError]

Enrich ==
    /\ probe.fn = "enrichVerificationError"
    /\ ~probe.done
    /\ probe' = [probe EXCEPT
                   !.done = TRUE,
                   !.result = enrichVerificationError(probe.requirements, probe.reason)]
    /\ UNCHANGED <<options, registeredTools, registration, pc, frame, log, outcome, heap>>

NextEnrich == Enrich

SpecEnrich == InitEnrich /\ [][NextEnrich]_vars

\* the part s is one of the parts of the message
Names(message, s) == \E k \in 1..Len(message) : message[k] = s

\* the message of an unenriched rejection
DefaultMessage(reason) ==
    <<"Payment verification failed: ",
      IF reason = undefined \/ reason = "" THEN "unknown reason" ELSE reason>>

\* the four reasons with an expected value name the reason and that value
NamesReasonAndExpectedValue ==
    LET r == probe.reason
        q == probe.requirements
        message == probe.result.message
    IN  /\ r \in {"insufficient_funds", "invalid_exact_evm_payload_authorization_value"}
              => Names(message, r) /\ Names(message, q.maxAmountRequired)
        /\ r = "invalid_exact_evm_payload_recipient_mismatch"
              => Names(message, r) /\ Names(message, q.payTo)
        /\ r = "invalid_network" => Names(message, r) /\ Names(message, q.network)

\* C19 as stated: for a rejection with reason r the message names r and,
\* where there is one, the expected value (the required atomic amount for
\* insufficient_funds and invalid_exact_evm_payload_authorization_value, the
\* payTo for a recipient mismatch, the network for invalid_network); for any
\* other or missing reason it is "Payment verification failed: <r or
\* 'unknown reason'>".
C19_OtherReasonsGetDefaultMessage ==
    probe.done =>
        /\ NamesReasonAndExpectedValue
        /\ probe.reason \notin {"insufficient_funds",
                                "invalid_exact_evm_payload_authorization_value",
                                "invalid_exact_evm_payload_recipient_mismatch",
                                "invalid_network"}
              => probe.result = Error(DefaultMessage(probe.reason))

\* C19, amended: as stated for the four reasons with an expected value; for
\* the reasons ..._valid_after, ..._valid_before and ..._signature the
\* message names r with a fixed explanation and is not the default one; for
\* any other, empty or missing reason it is "Payment verification failed:
\* <r or 'unknown reason'>".
C19_MessagesByReason ==
    probe.done =>
        /\ NamesReasonAndExpectedValue
        /\ probe.reason \in EnrichedReasons
              => /\ probe.result.name = "Error"
                 /\ probe.result.message[1] = probe.reason
                 /\ Len(probe.result.message) >= 2
        /\ probe.reason \notin EnrichedReasons
              => probe.result = Error(DefaultMessage(probe.reason))

C19_Witness ==
    /\ probe.done
    /\ probe.reason = "invalid_exact_evm_payload_authorization_valid_before"
    /\ probe.result =
         Error(<<"invalid_exact_evm_payload_authorization_valid_before",
                 ": Invalid validBefore value in the payment">>)

\* prices in ten-thousandths of a dollar; 0 is no valid price, and 500 is the
\* $0.05 of the README example
ProbedPrices == 0..MaxPrice \cup {500}

\* authorizations for another amount, another recipient and another asset
\* than those of the probed requirement
OtherAuthorizations ==
    {Authorization("10000", "0x1234", "usdc@base"),
     Authorization("50000", "0x9999", "usdc@base"),
     Authorization("50000", "0x1234", "dai@base")}

\* the payloads of the tokens that decode, and payloads of the same scheme
\* and network with another authorization
ProbedPayloads ==
    {t.body : t \in Tokens \ {MalformedToken}}
    \cup {Payload(1, "exact", "base", a) : a \in OtherAuthorizations}

InitRequirements ==
    \E u \in UserX402Options, price \in ProbedPrices, network \in KnownNetworks,
       p \in ProbedPayloads :
        /\ options = Constructor(u)
        /\ registeredTools = << >>
        /\ registration = Registration("", <<>>, FALSE, NoError, FALSE)
        /\ NoTraffic
        /\ probe = [fn |-> "generateRequirements",
                    payload |-> [p EXCEPT !.x402Version = options.x402.version],
                    tool |-> "generate_text", price |-> price, recipient |-> Recipient,
                    network |-> network, done |-> FALSE,
                    result |-> [ok |-> FALSE, value |-> NoRequirements, error |-> NoError]]

Generate ==
    /\ probe.fn = "generateRequirements"
    /\ ~probe.done
    /\ probe' = [probe EXCEPT
                   !.done = TRUE,
                   !.result = generateRequirements(probe.payload, probe.tool, probe.price,
                                                   probe.recipient, probe.network)]
    /\ UNCHANGED <<options, registeredTools, registration, pc, frame, log, outcome, heap>>

NextRequirements == Generate

SpecRequirements == InitRequirements /\ [][NextRequirements]_vars

\* round(price x 10^6) for a price given in ten-thousandths, as a decimal string
RoundedAtomicAmount(price) == ToString((price * 1000000 + 5000) \div 10000)

Answer(i) ==
    \/ \E r \in VerifyResponses : VerifyResolves(i, r)
    \/ \E f \in FacilitatorFaults : VerifyRejects(i, f)
    \/ \E c \in HandlerContents :
          \/ CallbackResolves(i, FreshResult(i), c)
          \/ CallbackResolves(i, SharedResult, heap[SharedResult])
    \/ \E e \in HandlerThrows : CallbackRejects(i, e)
    \/ \E r \in SettleResponses(i) : SettleResolves(i, r)
    \/ \E f \in FacilitatorFaults : SettleRejects(i, f)

\* the server with the tool of the README example
InitAnswered == Init /\ registration.args = ReadmeExample

SpecAnswered ==
    InitAnswered /\ [][Next]_vars /\ \A i \in Invocations : WF_vars(Answer(i))

\* C21: once an invocation is received, and every external call it makes
\* returns or throws in the end, it reaches a terminal outcome: it returns a
\* result or an error envelope, or a fault leaves it.
C21_ReceivedInvocationTerminates ==
    \A i \in Invocations :
        (pc[i] # "idle") ~> (pc[i] = "done" /\ outcome[i].kind \in {"returned", "threw"})

C21_Witness ==
    \E i \in Invocations :
        /\ pc[i] = "done"
        /\ Len(log[i]) = 6
        /\ IsSuccess(outcome[i])

\* C22: the context the transport supplied with the call is what the wrapped
\* handler gets as its last argument, unaltered, whether it is called as
\* (args, context) or as (context).
C22_ContextPassedUnchanged ==
    \A i \in Invocations :
        /\ Received(i) => frame[i].context = Context(i)
        /\ \A k \in Events(i, "handler", "call") :
              LET passed == log[i][k].value.args
              IN  passed[Len(passed)] = Context(i)

C22_Witness ==
    \E i \in Invocations : \E k \in Events(i, "handler", "call") :
        /\ Len(log[i][k].value.args) = 2
        /\ log[i][k].value.args[2] = Context(i)
        /\ log[i][k].value.args[2].sessionId = "session-1"

\* C23: registering a name twice through paidTool ends the same way in every
\* sequence of registrations: the later paidTool call for a registered name
\* throws, and the tool registered first stays as it is.
C23_SecondRegistrationAlwaysRejected ==
    [][ /\ \A name \in DOMAIN registeredTools :
              /\ name \in DOMAIN registeredTools'
              /\ registeredTools'[name] = registeredTools[name]
        /\ (registration' # registration /\ registration'.name \in DOMAIN registeredTools)
              => registration'.threw ]_vars

C23_Witness ==
    /\ Called
    /\ registration.threw
    /\ registration.toolCalled
    /\ registration.error = Error(<<"Tool ", registration.name, " is already registered">>)
    /\ registration.name \in DOMAIN registeredTools
    /\ registeredTools[registration.name] # paidTool(registration.name, registration.args).tool

(***************************************************************************)
(* The query_dataset tool of the cryo-mcp example: its handler counts the  *)
(* blocks of the range before it runs the dataset query.                   *)
(***************************************************************************)
MAX_BLOCK_RANGE_PER_QUERY == 10000

\* the longest block specification tried, in parts
MaxParts == 2

\* a number as it is written: digits with a suffix K or none
Num(digits, suffix) == [digits |-> digits, suffix |-> suffix]

\* parseBlockNumber: the digits times the multiplier of the suffix
parseBlockNumber(num) ==
    IF num.suffix = "K" THEN num.digits * 1000 ELSE num.digits

Max(a, b) == IF a >= b THEN a ELSE b
Min(a, b) == IF a <= b THEN a ELSE b

\* one part of a block specification, by its form
Part(form, a, b, c) == [form |-> form, a |-> a, b |-> b, c |-> c]
NoNum == Num(0, "")
SingleBlock(n) == Part("number", n, NoNum, NoNum)           \* 5000
BasicRange(start, end) == Part("range", start, end, NoNum)  \* 12M:13M
FromZero(end) == Part("fromZero", NoNum, end, NoNum)        \* :700
MinusRange(offset, end) == Part("minus", offset, end, NoNum) \* -1000:7000
PlusRange(start, blocks) == Part("plus", start, blocks, NoNum) \* 15M:+1000
StepRange(start, end, step) == Part("step", start, end, step)  \* 2000:5000:1000
Division(start, end, n) == Part("division", start, end, n)     \* 100:200/5

calculateBlockCountForPart(part) ==
    CASE part.form = "number" -> 1
      [] part.form = "division" -> part.c.digits
      [] part.form = "step" ->
            LET start == parseBlockNumber(part.a)
                end == parseBlockNumber(part.b)
                step == parseBlockNumber(part.c)
            IN  IF start >= end \/ step <= 0 THEN 0 ELSE ((end - start) \div step) + 1
      [] part.form = "fromZero" -> parseBlockNumber(part.b) + 1
      [] part.form = "minus" ->
            LET offset == parseBlockNumber(part.a)
                end == parseBlockNumber(part.b)
                start == end - offset
            IN  Max(0, end - start + 1)
      [] part.form = "plus" -> parseBlockNumber(part.b)
      [] OTHER -> Max(0, parseBlockNumber(part.b) - parseBlockNumber(part.a) + 1)

RECURSIVE calculateBlockCount(_)
calculateBlockCount(blockRange) ==
    IF blockRange = <<>> THEN 0
    ELSE calculateBlockCountForPart(Head(blockRange)) + calculateBlockCount(Tail(blockRange))

\* the handler of query_dataset up to the dataset query: range is the block
\* specification (no parts: none given), hashes the transaction hashes
queryDataset(range, hashes) ==
    LET blockCount == calculateBlockCount(range)
    IN  IF range # <<>> /\ blockCount > MAX_BLOCK_RANGE_PER_QUERY + 1
        THEN [queried |-> FALSE,
              error |-> Error(<<"Invalid block range: ", "Query would process ",
                                ToString(blockCount), " blocks">>)]
        ELSE IF hashes.given /\ hashes.length > MAX_BLOCK_RANGE_PER_QUERY
        THEN [queried |-> FALSE,
              error |-> Error(<<"You can only query up to ",
                                ToString(MAX_BLOCK_RANGE_PER_QUERY),
                                " transaction hashes at once.">>)]
        ELSE IF range = <<>> /\ ~hashes.given
        THEN [queried |-> FALSE,
              error |-> Error(<<"Either range or transactionHashes must be specified">>)]
        ELSE [queried |-> TRUE, error |-> NoError]

\* the parts tried: every form, with counts on both sides of the limit
ProbedParts ==
    {SingleBlock(Num(5000, ""))}
    \cup {BasicRange(Num(1, ""), Num(n, "")) : n \in {10000, 10001, 10002}}
    \cup {BasicRange(Num(15, "K"), Num(25, "K"))}
    \cup {FromZero(Num(n, "")) : n \in {9999, 10000}}
    \cup {MinusRange(Num(n, ""), Num(20, "K")) : n \in {10000, 10001}}
    \cup {PlusRange(Num(15, "K"), Num(n, "")) : n \in {1000, 10000, 10001, 10002}}
    \cup {StepRange(Num(2000, ""), Num(5000, ""), Num(1000, ""))}
    \cup {Division(Num(0, ""), Num(20, "K"), Num(n, "")) : n \in {5, 10001}}

RECURSIVE SeqsUpTo(_, _)
SeqsUpTo(S, n) ==
    IF n = 0 THEN {<<>>}
    ELSE LET shorter == SeqsUpTo(S, n - 1)
         IN  shorter \cup {Append(q, x) : q \in shorter, x \in S}

ProbedRanges == SeqsUpTo(ProbedParts, MaxParts)

ProbedHashes ==
    {[given |-> FALSE, length |-> 0]}
    \cup {[given |-> TRUE, length |-> n] : n \in {1, MAX_BLOCK_RANGE_PER_QUERY + 1}}

InitQueryDataset ==
    \E u \in UserX402Options, range \in ProbedRanges, hashes \in ProbedHashes :
        /\ options = Constructor(u)
        /\ registeredTools = << >>
        /\ registration = Registration("", <<>>, FALSE, NoError, FALSE)
        /\ NoTraffic
        /\ probe = [fn |-> "query_dataset", range |-> range, hashes |-> hashes,
                    done |-> FALSE, result |-> [queried |-> FALSE, error |-> NoError]]

QueryDataset ==
    /\ probe.fn = "query_dataset"
    /\ ~probe.done
    /\ probe' = [probe EXCEPT !.done = TRUE,
                              !.result = queryDataset(probe.range, probe.hashes)]
    /\ UNCHANGED <<options, registeredTools, registration, pc, frame, log, outcome, heap>>

NextQueryDataset == QueryDataset

SpecQueryDataset == InitQueryDataset /\ [][NextQueryDataset]_vars

\* the blocks a part stands for, by the block specification syntax the tool
\* describes to its callers (a range ends before its end block)
BlocksOfPart(part) ==
    LET a == parseBlockNumber(part.a)
        b == parseBlockNumber(part.b)
        c == parseBlockNumber(part.c)
    IN  CASE part.form = "number" -> 1
          [] part.form = "range" -> Max(0, b - a)
          [] part.form = "fromZero" -> b
          [] part.form = "minus" -> Min(a, b)
          [] part.form = "plus" -> b
          [] part.form = "step" -> IF b <= a \/ c <= 0 THEN 0 ELSE (b - a + c - 1) \div c
          [] OTHER -> Min(c, Max(0, b - a))

RECURSIVE BlocksOf(_)
BlocksOf(range) ==
    IF range = <<>> THEN 0 ELSE BlocksOfPart(Head(range)) + BlocksOf(Tail(range))

\* C24: query_dataset runs no dataset query over more than 10,000 blocks: a
\* block specification that stands for more than 10,000 blocks is refused by
\* the handler before the query runs.
C24_NoQueryOverTenThousandBlocks ==
    (probe.done /\ probe.result.queried) =>
        BlocksOf(probe.range) <= MAX_BLOCK_RANGE_PER_QUERY

(***************************************************************************)
(* The create_payment tool of the payflow client (payflow-mcp).  Amounts   *)
(* are in ten-thousandths of a dollar, like prices.                        *)
(***************************************************************************)
\* MAX_PAYMENT_AMOUNT_USDC as the environment gives it: a text, with the number it reads as
EnvNumber(text, value) == [text |-> text, value |-> value]

\* Number(MAX_PAYMENT_AMOUNT_USDC)
Number(env) == env.value

\* a schema whose amount has no upper bound
createPaymentSchema_Unbounded(args, max) ==
    IF args.recipientIsAddress
    THEN [ok |-> TRUE, error |-> NoError]
    ELSE [ok |-> FALSE, error |-> [name |-> "ZodError", message |-> <<"Invalid address">>]]

\* the parameter schema of create_payment, which the server validates the
\* arguments with before it calls the handler:
\* amount: z.number().max(max), recipient: z.string().refine(isAddress)
createPaymentSchema(args, max) ==
    IF args.amount > max
    THEN [ok |-> FALSE, error |-> [name |-> "ZodError", message |-> <<"too_big">>]]
    ELSE IF ~args.recipientIsAddress
    THEN [ok |-> FALSE, error |-> [name |-> "ZodError", message |-> <<"Invalid address">>]]
    ELSE [ok |-> TRUE, error |-> NoError]

\* the handler of create_payment: the header that is signed, or the error
createPayment(args) ==
    LET atomicAmount == processPriceToAtomicAmount(args.amount, "base")
    IN  IF atomicAmount.hasError
        THEN [signed |-> FALSE, header |-> NoRequirements, error |-> Error(atomicAmount.error)]
        ELSE [signed |-> TRUE, error |-> NoError,
              header |-> [scheme |-> "exact",
                          network |-> "base",
                          maxAmountRequired |-> atomicAmount.maxAmountRequired,
                          resource |-> args.tool,
                          description |-> "Payment for MCP server",
                          mimeType |-> "application/json",
                          payTo |-> args.recipient,
                          maxTimeoutSeconds |-> 3600,
                          asset |-> atomicAmount.asset.address,
                          extra |-> [name |-> atomicAmount.asset.name,
                                     version |-> atomicAmount.asset.version]]]

\* 10 as in the README, and 0.05
ProbedMaxAmounts == {EnvNumber("10", 100000), EnvNumber("0.05", 500), EnvNumber("1e-4", 1)}

ProbedAmounts == {0, 1, 2, 500, 501, 100000, 100001, 2000000}

ProbedPaymentArgs ==
    {[amount |-> a, recipient |-> Recipient, recipientIsAddress |-> isAddr, tool |-> "generate_text"] :
        a \in ProbedAmounts, isAddr \in BOOLEAN}

InitCreatePayment ==
    \E u \in UserX402Options, max \in ProbedMaxAmounts, args \in ProbedPaymentArgs :
        /\ options = Constructor(u)
        /\ registeredTools = << >>
        /\ registration = Registration("", <<>>, FALSE, NoError, FALSE)
        /\ NoTraffic
        /\ probe = [fn |-> "create_payment", max |-> max, args |-> args, done |-> FALSE,
                    called |-> FALSE,
                    result |-> [signed |-> FALSE, header |-> NoRequirements, error |-> NoError]]

\* a create_payment call: the arguments are validated, then the handler runs
CreatePayment ==
    /\ probe.fn = "create_payment"
    /\ ~probe.done
    /\ LET parsed == createPaymentSchema(probe.args, Number(probe.max))
       IN  IF ~parsed.ok
           THEN probe' = [probe EXCEPT !.done = TRUE, !.result.error = parsed.error]
           ELSE probe' = [probe EXCEPT !.done = TRUE, !.called = TRUE,
                                       !.result = createPayment(probe.args)]
    /\ UNCHANGED <<options, registeredTools, registration, pc, frame, log, outcome, heap>>

NextCreatePayment == CreatePayment

SpecCreatePayment == InitCreatePayment /\ [][NextCreatePayment]_vars

\* C25: create_payment signs and returns a payment header only for an
\* amount that is at most MAX_PAYMENT_AMOUNT_USDC; a call with a larger
\* amount is refused, and no header is signed for it.
C25_HeaderOnlyUpToMaxAmount ==
    probe.done =>
        /\ probe.result.signed => probe.args.amount <= probe.max.value
        /\ probe.args.amount > probe.max.value =>
              /\ ~probe.called
              /\ ~probe.result.signed
              /\ probe.result.error.name # "none"

C25_Witness ==
    /\ probe.done
    /\ probe.args.amount = 100001
    /\ probe.max.text = "10"
    /\ ~probe.result.signed
    /\ probe.result.error.message = <<"too_big">>

\* the requirement generateRequirements builds for the probed price, recipient and network
GeneratedRequirement ==
    generateRequirements_NoMatching(probe.payload, probe.tool, probe.price, probe.recipient,
                                    probe.network).value

\* the probed payload authorizes another amount, recipient or asset than the requirement asks
AuthorizationDiffers ==
    \/ probe.payload.payload.value # GeneratedRequirement.maxAmountRequired
    \/ probe.payload.payload.to # GeneratedRequirement.payTo
    \/ probe.payload.payload.asset # GeneratedRequirement.asset

\* C26: requirement matching compares only scheme and network: a token
\* whose amount, recipient or asset differs from the generated requirement
\* but whose scheme and network match passes the requirements stage, and
\* the requirement selected for verify is the generated one.
C26_MatchingOnlyBySchemeAndNetwork ==
    (/\ probe.done
     /\ probe.price >= 1
     /\ probe.payload.scheme = "exact"
     /\ probe.payload.network = probe.network)
    => /\ probe.result.ok
       /\ probe.result.value = GeneratedRequirement

C26_Witness ==
    /\ probe.done
    /\ probe.price = 500
    /\ probe.payload.payload = Authorization("10000", "0x1234", "usdc@base")
    /\ AuthorizationDiffers
    /\ probe.result.ok
    /\ probe.result.value.maxAmountRequired = "50000"

\* the verify call of invocation i failed at position k of its log
VerifyFaultAt(i, k) == log[i][k].op = "verify" /\ log[i][k].ev = "reject"

\* the settle call of invocation i failed at position k of its log
SettleFaultAt(i, k) == log[i][k].op = "settle" /\ log[i][k].ev = "reject"

\* C27: a fault thrown by the verify call or by the settle call is handled
\* like a rejection: the invocation returns an error envelope (with the
\* fault as its text); after a verify fault neither the handler nor settle
\* is called, and after a settle fault no success result is returned.
C27_FaultsEndInErrorEnvelope ==
    \A i \in Invocations : \A k \in DOMAIN log[i] :
        /\ VerifyFaultAt(i, k) =>
              /\ k = Len(log[i])
              /\ pc[i] = "done"
              /\ IsErrorEnvelope(outcome[i])
              /\ outcome[i].content[1].text = log[i][k].value
              /\ CallCount(i, "handler") = 0
              /\ CallCount(i, "settle") = 0
        /\ SettleFaultAt(i, k) =>
              /\ k = Len(log[i])
              /\ pc[i] = "done"
              /\ IsErrorEnvelope(outcome[i])
              /\ outcome[i].content[1].text = log[i][k].value
              /\ ~IsSuccess(outcome[i])

C27_Witness ==
    \E i \in Invocations :
        /\ Len(log[i]) = 6
        /\ SettleFaultAt(i, 6)
        /\ CallCount(i, "handler") = 1
        /\ IsErrorEnvelope(outcome[i])
        /\ outcome[i].content[1].text.name = "FetchError"

(***************************************************************************)
(* The caller keeps the PaymentOptions object it registered the tool with  *)
(* and may assign to its fields while the server takes calls.              *)
(***************************************************************************)
\* what the caller may assign: another price, another recipient
MutatedOptions ==
    {[price |-> 1, recipient |-> Recipient], [price |-> 500, recipient |-> "0x9999"]}

\* the server with the tool of the README example, and the caller's object
InitPaymentOptions ==
    \E name \in ToolNames :
        /\ options = Constructor([hasVersion |-> FALSE, version |-> 0])
        /\ registeredTools = (name :> paidTool(name, ReadmeExample).tool)
        /\ registration = Registration(name, ReadmeExample, FALSE, NoError, TRUE)
        /\ NoTraffic
        /\ probe = [fn |-> "paymentOptions",
                    paymentOptions |-> [price |-> PaymentOptionsOf(ReadmeExample).price,
                                        recipient |-> PaymentOptionsOf(ReadmeExample).recipient],
                    mutated |-> FALSE,
                    receivedBefore |-> {}]

\* paymentOptions.price = ...; paymentOptions.recipient = ... in the caller's
\* code, after paidTool returned (receivedBefore: the invocations that had
\* arrived by then)
MutatePaymentOptions(assigned) ==
    /\ probe.fn = "paymentOptions"
    /\ ~probe.mutated
    /\ probe' = [probe EXCEPT !.paymentOptions = assigned,
                              !.mutated = TRUE,
                              !.receivedBefore = {i \in Invocations : pc[i] # "idle"}]
    /\ UNCHANGED <<options, registeredTools, registration, pc, frame, log, outcome, heap>>

NextPaymentOptions ==
    \/ Next
    \/ \E assigned \in MutatedOptions : MutatePaymentOptions(assigned)

SpecPaymentOptions == InitPaymentOptions /\ [][NextPaymentOptions]_vars

\* the requirement of every verify and settle call of invocation i is for
\* the atomic amount of price and for recipient
RequirementsFor(i, price, recipient) ==
    \A k \in Events(i, "verify", "call") \cup Events(i, "settle", "call") :
        /\ log[i][k].value.requirements.maxAmountRequired =
              processPriceToAtomicAmount(price, "base").maxAmountRequired
        /\ log[i][k].value.requirements.payTo = recipient

\* C28: the price and the recipient used to build the requirement of every
\* invocation of a tool are the values supplied at its registration, also
\* for invocations that arrive after the caller assigned other values to
\* the PaymentOptions object.
C28_RequirementFromRegistrationValues ==
    \A i \in Invocations :
        RequirementsFor(i, PaymentOptionsOf(registration.args).price,
                           PaymentOptionsOf(registration.args).recipient)

C28_Witness ==
    \E i \in Invocations :
        /\ probe.mutated
        /\ probe.paymentOptions.price = 1
        /\ i \notin probe.receivedBefore
        /\ Events(i, "settle", "call") # {}
        /\ RequirementsFor(i, 500, Recipient)

\* C29: every paid tool that paidTool registers has a price strictly greater
\* than 0: PaymentOptions whose price is 0 or negative do not result in a
\* registered tool.
C29_RegisteredToolsHavePositivePrice ==
    /\ \A name \in DOMAIN registeredTools : registeredTools[name].callback.price > 0
    /\ (Called /\ HasPaymentOptions(registration.args)
          /\ PaymentOptionsOf(registration.args).price <= 0)
       => (registration.threw /\ ~registration.toolCalled)

\* C30: the arguments passed to the wrapped handler never contain the
\* payment field: the token is removed from the call's arguments when the
\* call arrives, before schema validation and before the handler is called,
\* and a param the caller declared under the name payment is replaced by
\* the injected string field in the registered schema.
C30_HandlerNeverSeesPayment ==
    /\ \A i \in Invocations :
          /\ Received(i) =>
                /\ "payment" \in DOMAIN frame[i].args
                /\ DOMAIN frame[i].toolArgs = DOMAIN frame[i].args \ {"payment"}
          /\ \A k \in Events(i, "handler", "call") :
                \A n \in 1..Len(log[i][k].value.args) :
                    "payment" \notin DOMAIN log[i][k].value.args[n]
    /\ \A name \in DOMAIN registeredTools :
          registeredTools[name].inputSchema["payment"] = "string"

C30_Witness ==
    \E i \in Invocations : \E k \in Events(i, "handler", "call") :
        /\ frame[i].args = [payment |-> TokenBase, prompt |-> StringValue]
        /\ Len(log[i][k].value.args) = 2
        /\ log[i][k].value.args[1] = [prompt |-> StringValue]

\* in this step the settle call of invocation i fails
SettleFails(i) ==
    /\ pc[i] = "settle"
    /\ pc'[i] = "done"
    /\ ~IsSuccess(outcome'[i])

\* event records a settle call that failed
IsSettleFailure(event) ==
    /\ event.op = "settle"
    /\ \/ event.ev = "reject"
       \/ event.ev = "resolve" /\ ~event.value.success

\* the error settlePayment raises for it
SettleErrorOf(event) ==
    IF event.ev = "reject" THEN event.value
    ELSE Error(<<event.value.errorReason>>)

\* the content the handler of invocation i returned
HandlerContent(i) ==
    log[i][CHOOSE h \in Events(i, "handler", "resolve") : TRUE].value.content

\* C31: when settle fails after the handler succeeded, the returned envelope
\* has exactly one content item, the settlement error, and none of the
\* segments the handler returned; what the handler did is left as it is (its
\* result object keeps its content) and no further call is made, then or
\* later.
C31_SettleFailureLeavesHandlerEffects ==
    [][ \A i \in Invocations :
          /\ SettleFails(i) =>
                /\ Events(i, "handler", "resolve") # {}
                /\ IsErrorEnvelope(outcome'[i])
                /\ Len(outcome'[i].content) = 1
                /\ outcome'[i].content[1].text = SettleErrorOf(log'[i][Len(log'[i])])
                /\ \A n \in DOMAIN HandlerContent(i) :
                      outcome'[i].content[1] # HandlerContent(i)[n]
                /\ heap' = heap
                /\ heap[frame[i].result] # <<>>
                /\ Len(log'[i]) = Len(log[i]) + 1
                /\ IsSettleFailure(log'[i][Len(log'[i])])
          /\ pc[i] = "done" => log'[i] = log[i] ]_vars

C31_Witness ==
    \E i \in Invocations :
        /\ pc[i] = "done"
        /\ Len(log[i]) = 6
        /\ SettleFailedAt(i, 6)
        /\ Len(outcome[i].content) = 1
        /\ outcome[i].content[1].text = Error(<<"insufficient_funds">>)
        /\ heap[frame[i].result] = HandlerContent(i)

\* segment is a payment reference, "Payment: <tx>"
IsPaymentSegment(segment) ==
    /\ segment.type = "text"
    /\ Len(segment.text.message) = 2
    /\ segment.text.message[1] = "Payment: "

\* the number of payment references at the end of content
RECURSIVE TrailingPaymentSegments(_)
TrailingPaymentSegments(content) ==
    IF content = <<>> \/ ~IsPaymentSegment(content[Len(content)])
    THEN 0
    ELSE 1 + TrailingPaymentSegments(SubSeq(content, 1, Len(content) - 1))

\* the invocations that have returned result object ref
ReturnedWith(ref) == {i \in Invocations : IsSuccess(outcome[i]) /\ outcome[i].ref = ref}

\* C32: on success the callback returns the very object the handler
\* returned, its content list extended in place by one element; so when a
\* handler returns the same object on every call, the result of its k-th
\* successful invocation ends with k payment references.
C32_ResultExtendedInPlace ==
    \A i \in Invocations :
        IsSuccess(outcome[i]) =>
            LET ref == outcome[i].ref
                content == outcome[i].content
                earlier == {j \in ReturnedWith(ref) : Len(outcome[j].content) <= Len(content)}
            IN  /\ ref = frame[i].result
                /\ Len(content) <= Len(heap[ref])
                /\ content = SubSeq(heap[ref], 1, Len(content))
                /\ TrailingPaymentSegments(heap[ref]) = Cardinality(ReturnedWith(ref))
                /\ TrailingPaymentSegments(content) = Cardinality(earlier)
                /\ content[Len(content)].text.message[2] =
                      log[i][Len(log[i])].value.transaction

C32_Witness ==
    \E i \in Invocations :
        /\ Cardinality(ReturnedWith(SharedResult)) = MaxInvocations
        /\ outcome[i].ref = SharedResult
        /\ TrailingPaymentSegments(outcome[i].content) = MaxInvocations
        /\ heap[SharedResult] = outcome[i].content

\* verify answered isValid = true at position k of invocation i
VerifyAcceptedAt(i, k) ==
    /\ log[i][k].op = "verify"
    /\ log[i][k].ev = "resolve"
    /\ log[i][k].value.isValid

\* the event after position k of invocation i is a call of op
CallFollows(i, k, op) ==
    /\ Len(log[i]) > k
    /\ log[i][k + 1].op = op
    /\ log[i][k + 1].ev = "call"

\* C33: the callback keeps no record of the tokens it has seen: whether the
\* handler runs depends only on the verify response of the invocation
\* itself, so when one token is submitted in two invocations that both pass
\* verify before either settles, the handler runs in both, and each makes a
\* settle attempt of its own.
C33_AdmissionByOwnVerifyResponse ==
    \A i \in Invocations : \A k \in DOMAIN log[i] :
        /\ VerifyAcceptedAt(i, k) => CallFollows(i, k, "handler")
        /\ (log[i][k].op = "handler" /\ log[i][k].ev = "resolve") =>
              /\ CallFollows(i, k, "settle")
              /\ log[i][k + 1].value.payload = frame[i].payload
              /\ CallCount(i, "settle") = 1

C33_Witness ==
    \E i, j \in Invocations :
        /\ i # j
        /\ pc[i] = "settle" /\ pc[j] = "settle"
        /\ frame[i].args = frame[j].args
        /\ frame[i].args.payment = TokenBase
        /\ CallCount(i, "handler") = 1 /\ CallCount(j, "handler") = 1
        /\ CallCount(i, "settle") = 1 /\ CallCount(j, "settle") = 1

\* the verify and settle calls of invocation i
FacilitatorCalls(i) == Events(i, "verify", "call") \cup Events(i, "settle", "call")

\* C34: the protocol version of the payload sent to verify and to settle is
\* the server's x402 version (1 unless the options give another), whatever
\* version the token carried; verify and settle of one invocation get the
\* same payload and the same requirement.
C34_PayloadCarriesServerVersion ==
    /\ options.x402.version \in {1} \cup {u.version : u \in {v \in UserX402Options : v.hasVersion}}
    /\ \A i \in Invocations :
          /\ \A k \in FacilitatorCalls(i) :
                /\ log[i][k].value.payload.x402Version = options.x402.version
                /\ log[i][k].value.payload =
                      [frame[i].args.payment.body EXCEPT !.x402Version = options.x402.version]
          /\ \A v \in Events(i, "verify", "call") : \A s \in Events(i, "settle", "call") :
                /\ log[i][v].value.payload = log[i][s].value.payload
                /\ log[i][v].value.requirements = log[i][s].value.requirements

C34_Witness ==
    \E i \in Invocations : \E s \in Events(i, "settle", "call") :
        /\ frame[i].args.payment.body.x402Version = 1
        /\ options.x402.version = 2
        /\ log[i][s].value.payload.x402Version = 2
        /\ log[i][1].value = log[i][s].value

(***************************************************************************)
(* The example HTTP server (examples/cryo-mcp/src/index.ts).  Its state is *)
(* the transports object, the transports it created, the data directories *)
(* of the sessions and the queries that are still running.                 *)
(***************************************************************************)
MaxTransports == 2
MaxRequests == 4

\* 12 * 60 * 60 * 1000 ms, in hours
maxAge == 12

Transports == 1..MaxTransports

\* randomUUID() of the transport created t-th
SessionIdOf(t) == "uuid-" \o ToString(t)

SessionIds == {SessionIdOf(t) : t \in Transports}

\* names every object inherits from Object.prototype
ObjectPrototypeKeys == {"constructor"}

\* the mcp-session-id header of a request: absent, a session's id, or another string
SessionHeaders == {undefined} \cup SessionIds \cup {"no-such-session"} \cup ObjectPrototypeKeys

InitializeBody == [method |-> "initialize"]
ToolCallBody == [method |-> "tools/call"]
Bodies == {InitializeBody, ToolCallBody}

isInitializeRequest(body) == body.method = "initialize"

NoTransport == 0

\* no directory
Absent == -1

\* a lookup that finds own properties only (as a Map would)
lookupTransport_OwnOnly(transports, sessionId) ==
    IF sessionId \in SessionIds /\ transports[sessionId] # NoTransport
    THEN [truthy |-> TRUE, isTransport |-> TRUE, transport |-> transports[sessionId]]
    ELSE [truthy |-> FALSE, isTransport |-> FALSE, transport |-> NoTransport]

\* transports[sessionId] on the plain object transports: an own property,
\* or else what Object.prototype has under that name
lookupTransport(transports, sessionId) ==
    IF sessionId \in SessionIds /\ transports[sessionId] # NoTransport
    THEN [truthy |-> TRUE, isTransport |-> TRUE, transport |-> transports[sessionId]]
    ELSE IF sessionId \in ObjectPrototypeKeys
    THEN [truthy |-> TRUE, isTransport |-> FALSE, transport |-> NoTransport]
    ELSE [truthy |-> FALSE, isTransport |-> FALSE, transport |-> NoTransport]

Response(method, sessionId, body, status, routedTo, created) ==
    [method |-> method, sessionId |-> sessionId, body |-> body, status |-> status,
     routedTo |-> routedTo, created |-> created]

\* the server after app.listen: no session, no data directory
HttpServer ==
    [fn |-> "http",
     transports |-> [s \in SessionIds |-> NoTransport],
     created |-> 0,
     sessionId |-> [t \in Transports |-> undefined],
     closed |-> [t \in Transports |-> FALSE],
     dirs |-> [s \in SessionIds |-> Absent],
     inflight |-> {},
     requests |-> 0,
     response |-> Response("", undefined, InitializeBody, 0, NoTransport, NoTransport)]

InitHttp ==
    \E u \in UserX402Options :
        /\ options = Constructor(u)
        /\ registeredTools = << >>
        /\ registration = Registration("", <<>>, FALSE, NoError, FALSE)
        /\ NoTraffic
        /\ probe = HttpServer

HttpUnchanged == UNCHANGED <<options, registeredTools, registration, pc, frame, log, outcome, heap>>

\* a close handler that removes the directory and leaves the map as it is
onclose_KeepsTransport(p, t) ==
    IF p.sessionId[t] = undefined
    THEN p
    ELSE [p EXCEPT !.dirs[p.sessionId[t]] = Absent]

\* transport.onclose of transport t, applied to the server state p
onclose(p, t) ==
    IF p.sessionId[t] = undefined
    THEN p
    ELSE [p EXCEPT !.dirs[p.sessionId[t]] = Absent,
                   !.transports[p.sessionId[t]] = NoTransport]

\* app.post('/v1/mcp'); accepted: the transport accepts the initialize
\* request (it refuses one without the headers it requires)
Post(sessionId, body, accepted) ==
    /\ probe.fn = "http"
    /\ probe.requests < MaxRequests
    /\ LET found == lookupTransport(probe.transports, sessionId)
           t == probe.created + 1
           counted == [probe EXCEPT !.requests = @ + 1]
       IN  IF sessionId # undefined /\ found.truthy
           THEN IF ~found.isTransport
                THEN \* transport.handleRequest is not a function: caught, 500
                     probe' = [counted EXCEPT !.response =
                                  Response("POST", sessionId, body, 500, NoTransport, NoTransport)]
                ELSE probe' = [counted EXCEPT
                        !.inflight = IF body.method = "tools/call" THEN @ \cup {sessionId} ELSE @,
                        !.response = Response("POST", sessionId, body, 200, found.transport,
                                              NoTransport)]
           ELSE IF sessionId = undefined /\ isInitializeRequest(body)
           THEN /\ t \in Transports
                /\ IF accepted
                   THEN probe' = [counted EXCEPT
                           !.created = t,
                           !.sessionId[t] = SessionIdOf(t),
                           !.transports[SessionIdOf(t)] = t,
                           !.response = Response("POST", sessionId, body, 200, t, t)]
                   ELSE probe' = [counted EXCEPT
                           !.created = t,
                           !.response = Response("POST", sessionId, body, 406, t, t)]
           ELSE probe' = [counted EXCEPT !.response =
                             Response("POST", sessionId, body, 400, NoTransport, NoTransport)]
    /\ HttpUnchanged

\* handleSessionRequest for GET and DELETE; a DELETE the transport handles
\* closes it.  uncaught: what becomes of the exception the handler does not
\* catch (500 from the framework's error handler, or no answer: 0)
SessionRequest(method, sessionId, uncaught) ==
    /\ probe.fn = "http"
    /\ probe.requests < MaxRequests
    /\ LET found == lookupTransport(probe.transports, sessionId)
           counted == [probe EXCEPT !.requests = @ + 1]
           t == found.transport
       IN  IF sessionId = undefined \/ ~found.truthy
           THEN probe' = [counted EXCEPT !.response =
                             Response(method, sessionId, InitializeBody, 400, NoTransport,
                                      NoTransport)]
           ELSE IF ~found.isTransport
           THEN probe' = [counted EXCEPT !.response =
                             Response(method, sessionId, InitializeBody, uncaught, NoTransport,
                                      NoTransport)]
           ELSE IF method = "DELETE"
           THEN probe' = [onclose([counted EXCEPT !.closed[t] = TRUE], t) EXCEPT !.response =
                             Response(method, sessionId, InitializeBody, 200, t, NoTransport)]
           ELSE probe' = [counted EXCEPT !.response =
                             Response(method, sessionId, InitializeBody, 200, t, NoTransport)]
    /\ HttpUnchanged

\* cryo of a running query_dataset call writes its output under data/<sessionId>
QueryWrites(sessionId) ==
    /\ probe.fn = "http"
    /\ sessionId \in probe.inflight
    /\ probe' = [probe EXCEPT !.inflight = @ \ {sessionId}, !.dirs[sessionId] = 0]
    /\ HttpUnchanged

\* a cleanup that spares the directories of the sessions in the transports map
cleanupOldDataFolders_SparesOpenSessions(dirs) ==
    [s \in DOMAIN dirs |->
        IF dirs[s] > maxAge /\ probe.transports[s] = NoTransport THEN Absent ELSE dirs[s]]

\* cleanupOldDataFolders, applied to the ages of the directories
cleanupOldDataFolders(dirs) ==
    [s \in DOMAIN dirs |-> IF dirs[s] > maxAge THEN Absent ELSE dirs[s]]

\* an hour passes and the interval timer runs the cleanup (an age is the
\* number of hours begun since the directory was last modified)
HourPasses ==
    /\ probe.fn = "http"
    /\ LET aged == [s \in SessionIds |->
                       IF probe.dirs[s] = Absent THEN Absent
                       ELSE IF probe.dirs[s] > maxAge THEN probe.dirs[s]
                       ELSE probe.dirs[s] + 1]
       IN  probe' = [probe EXCEPT !.dirs = cleanupOldDataFolders(aged)]
    /\ HttpUnchanged

NextHttp ==
    \/ \E sessionId \in SessionHeaders, body \in Bodies, accepted \in BOOLEAN :
          Post(sessionId, body, accepted)
    \/ \E method \in {"GET", "DELETE"}, sessionId \in SessionHeaders, uncaught \in {500, 0} :
          SessionRequest(method, sessionId, uncaught)
    \/ \E sessionId \in SessionIds : QueryWrites(sessionId)
    \/ HourPasses

SpecHttp == InitHttp /\ [][NextHttp]_vars

\* the sessions that were initialized and are not closed
OpenSessions ==
    {probe.sessionId[t] : t \in {u \in Transports :
        probe.sessionId[u] # undefined /\ ~probe.closed[u]}}

\* C35: a POST with a session id that is in the transports map is routed to
\* that session's transport; a POST with no session id that is an initialize
\* request creates a transport (and server) of its own; every other POST is
\* answered 400 and creates no transport; the transports map holds exactly
\* the sessions that were initialized and not closed, each with its own
\* transport.
C35_PostRouting ==
    /\ {s \in SessionIds : probe.transports[s] # NoTransport} = OpenSessions
    /\ \A s \in OpenSessions : probe.sessionId[probe.transports[s]] = s
    /\ probe.response.method = "POST" =>
          LET r == probe.response
          IN  IF r.sessionId = undefined /\ isInitializeRequest(r.body)
              THEN r.created # NoTransport /\ r.routedTo = r.created
              ELSE IF r.sessionId \in SessionIds /\ r.routedTo # NoTransport
              THEN r.created = NoTransport /\ probe.sessionId[r.routedTo] = r.sessionId
              ELSE r.status = 400 /\ r.created = NoTransport /\ r.routedTo = NoTransport

\* the sessions whose transport has closed
ClosedSessions == {probe.sessionId[t] : t \in {u \in Transports : probe.closed[u]}}

\* C36: when a session's transport closes, its session id is removed from
\* the transports map and its data directory is deleted; every later POST,
\* GET or DELETE with that session id is answered 400 and does not reach
\* the closed transport.
C36_ClosedSessionIsGone ==
    [][ /\ \A t \in Transports :
              (probe.closed'[t] /\ ~probe.closed[t]) =>
                  /\ probe.transports'[probe.sessionId[t]] = NoTransport
                  /\ probe.dirs'[probe.sessionId[t]] = Absent
        /\ \A s \in ClosedSessions : probe.transports'[s] = NoTransport
        /\ (probe.requests' # probe.requests /\ probe.response'.sessionId \in ClosedSessions) =>
              /\ probe.response'.status = 400
              /\ probe.response'.routedTo = NoTransport
              /\ probe.closed' = probe.closed ]_vars

C36_Witness ==
    /\ probe.fn = "http"
    /\ probe.response.method = "POST"
    /\ probe.response.sessionId \in ClosedSessions
    /\ probe.response.status = 400
    /\ probe.transports[probe.response.sessionId] = NoTransport

\* the interval timer fires every hour for as long as the process runs
SpecHttpHourly == InitHttp /\ [][NextHttp]_vars /\ WF_vars(HourPasses)

MaxNameLen == 4

NamePieces == {"a", "..", "/", "\\", ".parquet"}

\* file.includes(piece), for a piece that is one character
includes(file, piece) == \E k \in 1..Len(file) : file[k] = piece

\* file.endsWith(suffix), for a suffix that is one piece
endsWith(file, suffix) == file # <<>> /\ file[Len(file)] = suffix

\* the components of a relative path: what stands between its '/'
RECURSIVE Components(_)
Components(file) ==
    IF ~includes(file, "/")
    THEN <<file>>
    ELSE LET k == CHOOSE n \in 1..Len(file) :
                     file[n] = "/" /\ \A m \in 1..(n - 1) : file[m] # "/"
         IN  <<SubSeq(file, 1, k - 1)>> \o Components(SubSeq(file, k + 1, Len(file)))

\* path.normalize: empty components are dropped, '..' takes the one before it away
RECURSIVE Normalize(_, _)
Normalize(done, rest) ==
    IF rest = <<>> THEN done
    ELSE IF rest[1] = <<>> THEN Normalize(done, Tail(rest))
    ELSE IF rest[1] = <<"..">>
    THEN Normalize(IF done = <<>> \/ done[Len(done)] = <<"..">>
                   THEN Append(done, rest[1])
                   ELSE SubSeq(done, 1, Len(done) - 1), Tail(rest))
    ELSE Normalize(Append(done, rest[1]), Tail(rest))

\* path.join("data", sessionId, file)
pathJoin(sessionId, file) == Normalize(<<>>, << <<"data">>, <<sessionId>> >> \o Components(file))

ParquetName == <<"a", ".parquet">>

\* the files on disk: a table of each session, one in ./data itself, and a
\* file of session uuid-1 that is no parquet file
ExistingFiles ==
    { << <<"data">>, <<"uuid-1">>, ParquetName >>,
      << <<"data">>, <<"uuid-2">>, ParquetName >>,
      << <<"data">>, ParquetName >>,
      << <<"data">>, <<"uuid-1">>, <<"a">> >> }

existsSync(path) == path \in ExistingFiles

NoPath == << >>

\* the checks without the one for path separators
parquetFile_AnyName(file, sessionId) ==
    LET parquetFile == pathJoin(sessionId, file)
    IN  IF ~endsWith(file, ".parquet")
        THEN [opened |-> FALSE, path |-> NoPath,
              error |-> Error(<<"File must be a parquet file">>)]
        ELSE IF ~existsSync(parquetFile)
        THEN [opened |-> FALSE, path |-> NoPath, error |-> Error(<<"File not found: ">>)]
        ELSE [opened |-> TRUE, path |-> parquetFile, error |-> NoError]

\* the checks both handlers make on file before DuckDB reads it, and the
\* path it then reads
parquetFile(file, sessionId) ==
    LET joined == pathJoin(sessionId, file)
    IN  IF includes(file, "/") \/ includes(file, "\\")
        THEN [opened |-> FALSE, path |-> NoPath, error |-> Error(<<"Invalid file">>)]
        ELSE IF ~endsWith(file, ".parquet")
        THEN [opened |-> FALSE, path |-> NoPath,
              error |-> Error(<<"File must be a parquet file">>)]
        ELSE IF ~existsSync(joined)
        THEN [opened |-> FALSE, path |-> NoPath, error |-> Error(<<"File not found: ">>)]
        ELSE [opened |-> TRUE, path |-> joined, error |-> NoError]

ProbedFiles == SeqsUpTo(NamePieces, MaxNameLen)

InitFiles ==
    \E file \in ProbedFiles, sessionId \in {"uuid-1", "uuid-2"} :
        /\ options = Constructor([hasVersion |-> FALSE, version |-> 0])
        /\ registeredTools = << >>
        /\ registration = Registration("", <<>>, FALSE, NoError, FALSE)
        /\ NoTraffic
        /\ probe = [fn |-> "file", file |-> file, sessionId |-> sessionId, done |-> FALSE,
                    tool |-> "",
                    result |-> [opened |-> FALSE, path |-> NoPath, error |-> NoError]]

\* a describe_table call
DescribeTable ==
    /\ probe.fn = "file"
    /\ ~probe.done
    /\ probe' = [probe EXCEPT !.done = TRUE, !.tool = "describe_table",
                              !.result = parquetFile(probe.file, probe.sessionId)]
    /\ UNCHANGED <<options, registeredTools, registration, pc, frame, log, outcome, heap>>

\* a query_sql call
QuerySql ==
    /\ probe.fn = "file"
    /\ ~probe.done
    /\ probe' = [probe EXCEPT !.done = TRUE, !.tool = "query_sql",
                              !.result = parquetFile(probe.file, probe.sessionId)]
    /\ UNCHANGED <<options, registeredTools, registration, pc, frame, log, outcome, heap>>

NextFiles == DescribeTable \/ QuerySql

SpecFiles == InitFiles /\ [][NextFiles]_vars

\* C38: query_sql and describe_table read a file only if its name has no
\* '/' and no '\', ends with .parquet, and exists directly inside
\* data/<sessionId of the calling session>; any other file name is refused
\* with an error, and no file outside the caller's own session directory is
\* opened through the file parameter.
C38_OnlyOwnParquetFilesOpened ==
    probe.done =>
        LET file == probe.file
            own == << <<"data">>, <<probe.sessionId>>, file >>
            allowed == /\ ~includes(file, "/")
                       /\ ~includes(file, "\\")
                       /\ endsWith(file, ".parquet")
                       /\ own \in ExistingFiles
        IN  /\ probe.result.opened <=> allowed
            /\ probe.result.opened => probe.result.path = own
            /\ ~probe.result.opened =>
                  /\ probe.result.error.name = "Error"
                  /\ probe.result.path = NoPath

C38_Witness ==
    /\ probe.fn = "file"
    /\ probe.done
    /\ probe.file = <<"..", "/", "a", ".parquet">>
    /\ pathJoin(probe.sessionId, probe.file) \in ExistingFiles
    /\ ~probe.result.opened
    /\ probe.result.error = Error(<<"Invalid file">>)

====
